---------------------------- MODULE Spec2Model ----------------------------
(***************************************************************************)
(* A model of SparrowFlix: the conversation handlers of add_title.py,      *)
(* upload.py and fetch.py (registered by bot.py), the catalog updates they *)
(* issue against the document store, and the media-group handling.         *)
(*                                                                         *)
(* A text is a sequence of one-character strings, so that lower(),         *)
(* strip(), replace(), int() and the regular expressions of the source are *)
(* computed, not assumed.                                                  *)
(***************************************************************************)
EXTENDS Integers, Sequences, FiniteSets, TLC

VARIABLES
    step,          \* chat -> the registered next-step handlers (with their bound arguments)
    movies,        \* movies_collection: sequence of documents, in insertion order
    tv_shows,      \* tv_shows_collection
    channel,       \* the storage channel: file ids, message_id = position
    att,           \* chat -> where its run of process_file_upload_batch stands
    media_groups,  \* upload.py media_groups: group id -> list of messages (<<>>: no key)
    ev,            \* the message handled last: chat, message, handler, and what the
                   \* metadata source and the store did in the run
    reply,         \* what the last handler run sent (bot.send_message / send_document)
    fault,         \* the exception that left the last handler run ("none" if it returned)
    running,       \* FALSE once os._exit(0) was called
    now,           \* the clock, in ticks
    calls,         \* the two episode attaches that ended last: target, episode, file
    workers        \* telebot's worker threads: where each stands in its handler

vars == <<step, movies, tv_shows, channel, att, media_groups, ev, reply, fault, running,
          now, calls, workers>>

-----------------------------------------------------------------------------
(* Bounds of the model *)

MaxTitles == 2      \* documents in the store
MaxEpisodes == 2    \* episode records in the store
MaxChannel == 2     \* messages in the storage channel
MaxTime == 2        \* clock ticks
MaxGroup == 2       \* messages kept under one media group id

-----------------------------------------------------------------------------
(* Texts *)

NoText == <<"<None>">>          \* Python None where a str is expected (message.text of a file)
Absent == <<"<absent>">>        \* a key a dict does not have

UpperChars == <<"A","B","C","D","E","F","G","H","I","J","K","L","M",
                "N","O","P","Q","R","S","T","U","V","W","X","Y","Z">>
LowerChars == <<"a","b","c","d","e","f","g","h","i","j","k","l","m",
                "n","o","p","q","r","s","t","u","v","w","x","y","z">>
DigitChars == <<"0","1","2","3","4","5","6","7","8","9">>

\* the lower-case and upper-case letter of each letter
ToLower == [ch \in {UpperChars[i] : i \in 1..26} |->
               LowerChars[CHOOSE i \in 1..26 : UpperChars[i] = ch]]
ToUpper == [ch \in {LowerChars[i] : i \in 1..26} |->
               UpperChars[CHOOSE i \in 1..26 : LowerChars[i] = ch]]

LowerChar(ch) == IF ch \in DOMAIN ToLower THEN ToLower[ch] ELSE ch
UpperChar(ch) == IF ch \in DOMAIN ToUpper THEN ToUpper[ch] ELSE ch

\* str.lower()
Lower(s) == [i \in 1..Len(s) |-> LowerChar(s[i])]

\* str.capitalize(): first character upper, the rest lower
Capitalize(s) == [i \in 1..Len(s) |-> IF i = 1 THEN UpperChar(s[i]) ELSE LowerChar(s[i])]

IsSpace(ch) == ch = " "
ToDigit == [ch \in {DigitChars[i] : i \in 1..10} |->
               (CHOOSE i \in 1..10 : DigitChars[i] = ch) - 1]
IsDigit(ch) == ch \in DOMAIN ToDigit
DigitVal(ch) == ToDigit[ch]

RECURSIVE LStrip(_)
LStrip(s) == IF s # <<>> /\ IsSpace(Head(s)) THEN LStrip(Tail(s)) ELSE s
RECURSIVE RStrip(_)
RStrip(s) == IF s # <<>> /\ IsSpace(s[Len(s)]) THEN RStrip(SubSeq(s, 1, Len(s) - 1)) ELSE s
\* str.strip()
Strip(s) == RStrip(LStrip(s))

StartsWith(s, p) == Len(p) <= Len(s) /\ SubSeq(s, 1, Len(p)) = p

\* str.replace(old, ""): every non-overlapping occurrence, left to right
RECURSIVE Remove(_, _)
Remove(s, old) ==
    IF s = <<>> THEN <<>>
    ELSE IF StartsWith(s, old) THEN Remove(SubSeq(s, Len(old) + 1, Len(s)), old)
    ELSE <<Head(s)>> \o Remove(Tail(s), old)

\* the longest run of digits s starts with
RECURSIVE DigitRun(_)
DigitRun(s) == IF s # <<>> /\ IsDigit(Head(s)) THEN <<Head(s)>> \o DigitRun(Tail(s)) ELSE <<>>

RECURSIVE Value(_, _)
Value(ds, acc) == IF ds = <<>> THEN acc ELSE Value(Tail(ds), 10 * acc + DigitVal(Head(ds)))

Found(n) == [ok |-> TRUE, val |-> n]
NotFound == [ok |-> FALSE, val |-> 0]

\* int(s): surrounding whitespace is ignored, an optional sign, then digits only;
\* anything else raises ValueError (ok = FALSE)
PyInt(s) ==
    LET t == Strip(s)
        neg == t # <<>> /\ Head(t) = "-"
        u == IF t # <<>> /\ Head(t) \in {"-", "+"} THEN Tail(t) ELSE t
    IN  IF u # <<>> /\ DigitRun(u) = u
        THEN Found(IF neg THEN 0 - Value(u, 0) ELSE Value(u, 0))
        ELSE NotFound

\* re.match(r"(\d+)", s): int(group(1)), or no match
ReMatchDigits(s) == IF DigitRun(s) = <<>> THEN NotFound ELSE Found(Value(DigitRun(s), 0))

\* re.search(r'[Ee](\d+)', s): the leftmost E or e that digits follow
RECURSIVE ReSearchE(_)
ReSearchE(s) ==
    IF s = <<>> THEN NotFound
    ELSE IF Head(s) \in {"E", "e"} /\ DigitRun(Tail(s)) # <<>>
         THEN Found(Value(DigitRun(Tail(s)), 0))
         ELSE ReSearchE(Tail(s))

\* {"title": re.compile(".*" + re.escape(query) + ".*", re.IGNORECASE)}: the title
\* holds the query somewhere, whatever the case
RECURSIVE Contains(_, _)
Contains(s, q) ==
    \/ StartsWith(s, q)
    \/ s # <<>> /\ Contains(Tail(s), q)
TitleMatchesQuery(title, query) == Contains(Lower(title), Lower(query))

\* validate_input(expected_values, user_input)
validate_input(expected_values, user_input) ==
    Lower(user_input) \in {Lower(v) : v \in expected_values}

\* the texts of the model
tEnglish == <<"E","n","g","l","i","s","h">>
tHebrew == <<"H","e","b","r","e","w">>
tJapanese == <<"J","a","p","a","n","e","s","e">>
tMovie == <<"M","o","v","i","e">>
tTVShow == <<"T","V"," ","S","h","o","w">>
tMovies == <<"M","o","v","i","e","s">>
tTVShows == <<"T","V"," ","S","h","o","w","s">>
tBack == <<"B","a","c","k">>
tback == <<"b","a","c","k">>
tStop == <<"/","s","t","o","p">>
tStart == <<"/","s","t","a","r","t">>
tDune == <<"D","u","n","e">>
tdune == <<"d","u","n","e">>
tLost == <<"L","o","s","t">>
tDune2 == tDune \o <<" ","2">>
tDune3 == tDune \o <<" ","3">>
tDune4 == tDune \o <<" ","4">>
tDune5 == tDune \o <<" ","5">>
tJunk == <<"z","z">>
tSeason == <<"S","e","a","s","o","n"," ">>
tEpisode == <<"E","p","i","s","o","d","e"," ">>
tSeason1 == tSeason \o <<"1">>
tSeason2 == tSeason \o <<"2">>
tSeason9 == tSeason \o <<"9">>
tEpisode1 == tEpisode \o <<"1">>
tEpisode2 == tEpisode \o <<"2">>

Languages == {tEnglish, tHebrew, tJapanese}
ItemTypes == {tMovie, tTVShow}
kMovie == Lower(tMovie)
kTVShow == Lower(tTVShow)

-----------------------------------------------------------------------------
(* Messages, handler results *)

NoFile == "nofile"
NoGroup == "nogroup"

\* a text message; date is the time it was sent at
TextMsg(t) ==
    [text |-> t, content_type |-> "text", file_id |-> NoFile,
     caption |-> NoText, media_group_id |-> NoGroup, date |-> 0]

\* a document: message.text is None
FileMsg(f, cap, g) ==
    [text |-> NoText, content_type |-> "document", file_id |-> f,
     caption |-> cap, media_group_id |-> g, date |-> 0]

\* What one handler run does: the next-step handlers it registers, the messages it
\* sends, the exception that leaves it, whether it ends the process, the documents
\* it inserts.
Ret(regs, sent) ==
    [regs |-> regs, sent |-> sent, fault |-> "none", exit |-> FALSE, ins |-> <<>>,
     tmdb |-> "none", store |-> "none"]
Raise(exc) ==
    [regs |-> <<>>, sent |-> <<>>, fault |-> exc, exit |-> FALSE, ins |-> <<>>,
     tmdb |-> "none", store |-> "none"]
\* bot.send_message(...), then the call of another handler with the same message
Say(sent, r) == [r EXCEPT !.sent = sent \o @]

-----------------------------------------------------------------------------
(* The metadata source (utils.py) *)

\* search results: a movie has 'title', a show has 'name'
MovieCand(id, t) == [id |-> id, name |-> Absent, title |-> t]
ShowCand(id, t) == [id |-> id, name |-> t, title |-> Absent]

\* requests.get(endpoint, params) and raise_for_status(): the endpoint answers with a
\* list of results, or the request fails with a RequestException
Response(results) == [ok |-> TRUE, results |-> results]
RequestException == [ok |-> FALSE, results |-> <<>>]
NoRequest == Response(<<>>)
requests_get(item_type) ==
    {RequestException}
    \cup {Response(r) : r \in
            IF item_type = kMovie
            THEN {<<>>, <<MovieCand(11, tDune), MovieCand(12, tLost)>>,
                  <<MovieCand(11, tDune), MovieCand(12, tLost), MovieCand(13, tDune2),
                    MovieCand(14, tDune3), MovieCand(15, tDune4), MovieCand(16, tDune5)>>}
            ELSE {<<>>, <<ShowCand(21, tDune)>>}}

\* search_tmdb(title, item_type): the results of the response; a RequestException is
\* logged and gives []
search_tmdb(response) == IF response.ok THEN response.results ELSE <<>>

Season(n) == [season_number |-> n, episodes |-> <<>>]
NoDetails == [found |-> FALSE, seasons |-> <<>>]

\* get_tmdb_details(item_id, item_type): the detail blob, or {} on a RequestException
\* (the model lets the lookup fail for shows, where the blob carries the seasons)
get_tmdb_details(item_type) ==
    IF item_type = kMovie
    THEN {[found |-> TRUE, seasons |-> <<>>]}
    ELSE {NoDetails, [found |-> TRUE, seasons |-> <<Season(1), Season(2)>>]}

\* result.get('name', result.get('title')): the label on the keyboard
OptionLabel(r) == IF r.name # Absent THEN r.name ELSE r.title
\* (result.get('name') or result.get('title', '')): the label a selection is matched with
MatchLabel(r) ==
    IF r.name # Absent /\ r.name # <<>> THEN r.name
    ELSE IF r.title # Absent THEN r.title ELSE <<>>

\* results[:5]: the candidates that get a button
TopN == 5
\* [result.get('name', result.get('title')) for result in results[:5]
\*  if 'name' in result or 'title' in result]: the labels on the keyboard
Options(results) ==
    LET shown == SubSeq(results, 1, IF Len(results) < TopN THEN Len(results) ELSE TopN)
        Labelled(r) == r.name # Absent \/ r.title # Absent
        labelled == SelectSeq(shown, Labelled)
    IN  [k \in 1..Len(labelled) |-> OptionLabel(labelled[k])]

\* next((x for x in xs if P(x)), None): the position of the first, 0 for None
First(xs, P(_)) ==
    IF \E i \in 1..Len(xs) : P(xs[i])
    THEN CHOOSE i \in 1..Len(xs) : P(xs[i]) /\ \A j \in 1..(i - 1) : ~P(xs[j])
    ELSE 0

-----------------------------------------------------------------------------
(* The document store (database.py) *)

\* database.py creates the index on "title" without unique=True
TitleIndexUnique == FALSE

\* the keys of DuplicateKeyError.details, which process_tmdb_selection looks into
DuplicateKeyDetails == {"index", "code", "errmsg", "keyPattern", "keyValue"}

Collection(item_type) == IF item_type = kMovie THEN movies ELSE tv_shows

\* the _id the store gives the next document
NextId == Len(movies) + Len(tv_shows) + 1

\* collection.insert_one(data): "inserted", or the exception it raises
insert_one(coll, data, dbok) ==
    IF ~dbok THEN "ServerSelectionTimeoutError"
    ELSE IF TitleIndexUnique /\ \E i \in 1..Len(coll) : coll[i].title = data.title
         THEN "DuplicateKeyError"
         ELSE "inserted"

-----------------------------------------------------------------------------
(* Episodes in the store: the queries and updates of upload.py *)

\* a season of the detail blob carries no "episodes" key until the first $push makes
\* the array, and no update shrinks it: an empty episodes stands for the missing key
NoSeason == [season_number |-> 0, episodes |-> <<>>]

\* {"episode_number": n, "file_id": f}; channel_message_id 0: the key is not there
Episode(n, f) == [episode_number |-> n, file_id |-> f, channel_message_id |-> 0]

\* the position of the document {"_id": id} in a collection (0: none)
DocIdx(coll, id) ==
    LET Eq(d) == d._id = id IN First(coll, Eq)

HasEpisode(season, n) ==
    \E k \in 1..Len(season.episodes) : season.episodes[k].episode_number = n

\* the first season that satisfies "details.seasons.season_number": s (0: none)
SeasonPos(doc, s) ==
    LET Eq(x) == x.season_number = s IN First(doc.details.seasons, Eq)

\* the first season that satisfies "details.seasons.episodes.episode_number": n
EpisodePos(doc, n) ==
    LET Has(x) == HasEpisode(x, n) IN First(doc.details.seasons, Has)

\* a variant of EpisodeExists that looks for the episode inside season s only
EpisodeExists_SameSeason(doc, s, n) ==
    \E i \in 1..Len(doc.details.seasons) :
        doc.details.seasons[i].season_number = s /\ HasEpisode(doc.details.seasons[i], n)

\* the filter {"details.seasons.season_number": s,
\* "details.seasons.episodes.episode_number": n}: each dotted path is satisfied by any
\* element of the seasons array, not necessarily by the same one
EpisodeExists(doc, s, n) == SeasonPos(doc, s) # 0 /\ EpisodePos(doc, n) # 0

\* find_one({"_id": id, ...the filter above...}) is not None
find_one_episode(coll, id, s, n) ==
    DocIdx(coll, id) # 0 /\ EpisodeExists(coll[DocIdx(coll, id)], s, n)

\* what the positional "$" of the update may stand for when two predicates of the
\* filter run over the seasons array: the store documents the choice as undefined
PositionalChoices(doc, s, n) == {SeasonPos(doc, s), EpisodePos(doc, n)}

SetFile(eps, n, f) ==
    [k \in 1..Len(eps) |->
        IF eps[k].episode_number = n THEN [eps[k] EXCEPT !.file_id = f] ELSE eps[k]]

\* {"$set": {"details.seasons.$.episodes.$[ep].file_id": f}} with
\* array_filters ep.episode_number = n and "$" = pos; the update raises when the
\* episodes path is not in the document
update_episode_file(doc, pos, n, f) ==
    IF doc.details.seasons[pos].episodes = <<>>
    THEN [ok |-> FALSE, doc |-> doc]
    ELSE [ok |-> TRUE,
          doc |-> [doc EXCEPT !.details.seasons[pos].episodes = SetFile(@, n, f)]]

\* a variant of push_episode that pushes a season of its own for the episode
push_episode_NewSeason(doc, s, n, f) ==
    [doc EXCEPT !.details.seasons =
        Append(@, [season_number |-> s + 10, episodes |-> <<Episode(n, f)>>])]

\* {"$push": {"details.seasons.$.episodes": {...}}} under the filter
\* {"_id": id, "details.seasons.season_number": s}: "$" is the first season numbered s
push_episode(doc, s, n, f) ==
    IF SeasonPos(doc, s) = 0 THEN doc
    ELSE [doc EXCEPT !.details.seasons[SeasonPos(doc, s)].episodes = Append(@, Episode(n, f))]

SetLink(eps, n, mid) ==
    [k \in 1..Len(eps) |->
        IF eps[k].episode_number = n THEN [eps[k] EXCEPT !.channel_message_id = mid]
        ELSE eps[k]]

\* {"$set": {"details.seasons.$[s].episodes.$[e].channel_message_id": mid}} under the
\* filter of EpisodeExists: every season numbered s, every episode numbered n in it; it
\* raises when a season numbered s has no episodes path
update_episode_link(doc, s, n, mid) ==
    IF ~EpisodeExists(doc, s, n) THEN [ok |-> TRUE, doc |-> doc]
    ELSE IF \E i \in 1..Len(doc.details.seasons) :
                doc.details.seasons[i].season_number = s
                    /\ doc.details.seasons[i].episodes = <<>>
    THEN [ok |-> FALSE, doc |-> doc]
    ELSE [ok |-> TRUE,
          doc |-> [doc EXCEPT !.details.seasons =
                      [i \in 1..Len(@) |->
                          IF @[i].season_number = s
                          THEN [@[i] EXCEPT !.episodes = SetLink(@, n, mid)]
                          ELSE @[i]]]]

-----------------------------------------------------------------------------
(* The Add workflow (add_title.py) *)

add_new_title_handler(m) ==
    Ret(<<[name |-> "process_language_selection_for_add"]>>,
        <<"Choose a language for the title:">>)

process_language_selection_for_add(m) ==
    IF m.text = NoText THEN Raise("AttributeError")
    ELSE IF Lower(m.text) = tback THEN add_new_title_handler(m)
    ELSE LET language == Lower(Strip(m.text)) IN
         IF ~validate_input(Languages, language)
         THEN Say(<<"Invalid language. Try again.">>, add_new_title_handler(m))
         ELSE Ret(<<[name |-> "process_type_selection_for_add", language |-> language]>>,
                  <<"Is it a Movie or TV Show?">>)

\* handle_back(message, process_language_selection_for_add, language) calls
\* process_language_selection_for_add(message, language), which takes one argument
process_type_selection_for_add(m, language) ==
    IF m.text = NoText THEN Raise("AttributeError")
    ELSE IF Lower(m.text) = tback THEN Raise("TypeError")
    ELSE LET item_type == Lower(Strip(m.text)) IN
         IF ~validate_input(ItemTypes, item_type)
         THEN Say(<<"Invalid type. Try again.">>, process_language_selection_for_add(m))
         ELSE Ret(<<[name |-> "process_title_entry", language |-> language,
                     item_type |-> item_type]>>,
                  <<"Enter the title:">>)

\* a variant of process_title_entry that does not catch the failed request
process_title_entry_Propagates(m, language, item_type, env) ==
    IF m.text = NoText THEN Raise("AttributeError")
    ELSE IF Lower(m.text) = tback THEN process_type_selection_for_add(m, language)
    ELSE IF ~env.response.ok
    THEN [Raise("RequestException") EXCEPT !.tmdb = "RequestException"]
    ELSE IF env.response.results = <<>>
    THEN [Ret(<<[name |-> "process_title_entry", language |-> language,
                 item_type |-> item_type]>>,
              <<"No matches found. Try again or type 'Back'.">>) EXCEPT !.tmdb = "ok"]
    ELSE [Ret(<<[name |-> "process_tmdb_selection", language |-> language,
                 item_type |-> item_type, results |-> env.response.results]>>,
              <<"Select the closest match:">>) EXCEPT !.tmdb = "ok"]

process_title_entry(m, language, item_type, env) ==
    IF m.text = NoText THEN Raise("AttributeError")
    ELSE IF Lower(m.text) = tback THEN process_type_selection_for_add(m, language)
    ELSE LET results == search_tmdb(env.response)
             r == IF results = <<>>
                  THEN Ret(<<[name |-> "process_title_entry", language |-> language,
                              item_type |-> item_type]>>,
                           <<"No matches found. Try again or type 'Back'.">>)
                  ELSE Ret(<<[name |-> "process_tmdb_selection", language |-> language,
                              item_type |-> item_type, results |-> results]>>,
                           <<"Select the closest match:">>)
         IN  [r EXCEPT !.tmdb = IF env.response.ok THEN "ok" ELSE "RequestException"]

\* a variant of TitleData that reads only the 'title' key of the match
TitleData_TitleKeyOnly(r, language, item_type, details) ==
    [_id |-> NextId, title |-> r.title, language |-> language, type |-> item_type,
     details |-> details, file_id |-> NoFile, channel_message_id |-> 0]

\* the document process_tmdb_selection builds: title is match.get("name",
\* match.get("title")); no file is attached yet. created_at, which nothing reads,
\* is left out.
TitleData(r, language, item_type, details) ==
    [_id |-> NextId, title |-> OptionLabel(r), language |-> language, type |-> item_type,
     details |-> details, file_id |-> NoFile, channel_message_id |-> 0]

\* a variant of process_tmdb_selection that saves no title without its details
process_tmdb_selection_NeedsDetails(m, language, item_type, results, env) ==
    IF m.text = NoText THEN Raise("AttributeError")
    ELSE IF Lower(m.text) = tback THEN process_title_entry(m, language, item_type, env)
    ELSE LET selected_title == Strip(m.text)
             Eq(r) == Lower(MatchLabel(r)) = Lower(selected_title)
             match == First(results, Eq)
         IN  IF match = 0
             THEN Say(<<"Invalid selection. Try again.">>,
                      process_title_entry(m, language, item_type, env))
             ELSE LET data == TitleData(results[match], language, item_type, env.details)
                      outcome == insert_one(Collection(item_type), data, env.dbok)
                      r == IF env.details = NoDetails
                           THEN Ret(<<>>, <<"An error occurred while saving the title. Try again later.">>)
                           ELSE IF outcome = "inserted"
                           THEN [Ret(<<>>, <<"Title added successfully.">>)
                                    EXCEPT !.ins = <<data>>]
                           ELSE IF outcome = "DuplicateKeyError"
                                      /\ "key" \in DuplicateKeyDetails
                           THEN Ret(<<>>, <<"This title already exists in the database.">>)
                           ELSE Ret(<<>>, <<"An error occurred while saving the title. Try again later.">>)
                  IN  [r EXCEPT !.tmdb = IF env.details = NoDetails
                                         THEN "details: RequestException" ELSE "details",
                                !.store = IF env.dbok THEN "up" ELSE "down"]

process_tmdb_selection(m, language, item_type, results, env) ==
    IF m.text = NoText THEN Raise("AttributeError")
    ELSE IF Lower(m.text) = tback THEN process_title_entry(m, language, item_type, env)
    ELSE LET selected_title == Strip(m.text)
             Eq(r) == Lower(MatchLabel(r)) = Lower(selected_title)
             match == First(results, Eq)
         IN  IF match = 0
             THEN Say(<<"Invalid selection. Try again.">>,
                      process_title_entry(m, language, item_type, env))
             ELSE LET data == TitleData(results[match], language, item_type, env.details)
                      outcome == insert_one(Collection(item_type), data, env.dbok)
                      r == IF outcome = "inserted"
                           THEN [Ret(<<>>, <<"Title added successfully.">>)
                                    EXCEPT !.ins = <<data>>]
                           ELSE IF outcome = "DuplicateKeyError"
                                      /\ "key" \in DuplicateKeyDetails
                           THEN Ret(<<>>, <<"This title already exists in the database.">>)
                           ELSE Ret(<<>>, <<"An error occurred while saving the title. Try again later.">>)
                  IN  [r EXCEPT !.tmdb = IF env.details = NoDetails
                                         THEN "details: RequestException" ELSE "details",
                                !.store = IF env.dbok THEN "up" ELSE "down"]

\* check_global_commands(bot, message, next_step, *args): r is what next_step does.
\* "from bot import start_command": bot.py defines no start_command.
check_global_commands(m, r) ==
    IF m.text = tStop
    THEN [Ret(<<>>, <<"Bot is stopping. Goodbye!">>) EXCEPT !.exit = TRUE]
    ELSE IF m.text = tStart THEN Raise("ImportError")
    ELSE r

-----------------------------------------------------------------------------
(* The Upload workflow (upload.py): no step calls check_global_commands *)

upload_handler(m) ==
    Ret(<<[name |-> "process_language_selection_for_upload"]>>,
        <<"Choose a language for the upload:">>)

process_language_selection_for_upload(m) ==
    IF m.text = NoText THEN Raise("AttributeError")
    ELSE IF Lower(m.text) = tback THEN upload_handler(m)
    ELSE LET language == Lower(Strip(m.text)) IN
         IF ~validate_input(Languages, language)
         THEN Say(<<"Invalid language selection. Try again.">>, upload_handler(m))
         ELSE Ret(<<[name |-> "process_type_selection_for_upload", language |-> language]>>,
                  <<"Is it a Movie or TV Show?">>)

\* handle_back(message, process_language_selection_for_upload, language): one
\* argument too many for process_language_selection_for_upload
process_type_selection_for_upload(m, language) ==
    IF m.text = NoText THEN Raise("AttributeError")
    ELSE IF Lower(m.text) = tback THEN Raise("TypeError")
    ELSE LET item_type == Lower(Strip(m.text)) IN
         IF ~validate_input(ItemTypes, item_type)
         THEN Say(<<"Invalid type. Try again.">>, process_language_selection_for_upload(m))
         ELSE Ret(<<[name |-> "process_upload_search", language |-> language,
                     item_type |-> item_type]>>,
                  <<"Search for the title by name:">>)

\* collection.find({"title": <the query, anywhere, any case>}): the language plays no
\* part in the query
find_titles(coll, query) ==
    LET Hit(d) == TitleMatchesQuery(d.title, query) IN SelectSeq(coll, Hit)

process_upload_search(m, language, item_type, dbok) ==
    IF m.text = NoText THEN Raise("AttributeError")
    ELSE IF Lower(m.text) = tback THEN process_type_selection_for_upload(m, language)
    ELSE LET query == Strip(m.text)
             results == find_titles(Collection(item_type), query)
         IN  IF ~dbok
             THEN Ret(<<>>, <<"An error occurred while searching the database. Please try again.">>)
             ELSE IF results = <<>>
             THEN Ret(<<[name |-> "process_upload_search", language |-> language,
                         item_type |-> item_type]>>,
                      <<"No matches found. Try again or type 'Back'.">>)
             ELSE Ret(<<[name |-> "process_upload_selection", language |-> language,
                         item_type |-> item_type, results |-> results]>>,
                      <<"Select a match or type 'Back':">>)

handle_movie_upload(m, movie) ==
    Ret(<<[name |-> "process_file_upload_batch", tv_show |-> movie, item_type |-> kMovie,
           season |-> NoSeason]>>,
        <<"Uploading files for the movie. Please upload the file(s).">>)

\* back_callback is process_upload_search: back_callback(message) lacks two arguments
navigate_tv_show(m, tv_show) ==
    IF tv_show.details.seasons = <<>>
    THEN Say(<<"No seasons found for this TV show.">>, Raise("TypeError"))
    ELSE Ret(<<[name |-> "process_season_selection_for_upload", tv_show |-> tv_show]>>,
             <<"Select a season:">>)

process_upload_selection(m, language, item_type, results, dbok) ==
    IF m.text = NoText THEN Raise("AttributeError")
    ELSE IF Lower(m.text) = tback THEN process_upload_search(m, language, item_type, dbok)
    ELSE LET selected_title == Strip(m.text)
             Eq(r) == Lower(r.title) = Lower(selected_title)
             match == First(results, Eq)
         IN  IF match = 0
             THEN Say(<<"Invalid selection. Try again.">>,
                      process_upload_search(m, language, item_type, dbok))
             ELSE IF item_type = kMovie THEN handle_movie_upload(m, results[match])
             ELSE IF item_type = kTVShow THEN navigate_tv_show(m, results[match])
             ELSE Ret(<<>>, <<>>)

\* a variant of process_season_selection_for_upload that takes the number typed as
\* the season, without looking for it in the show
process_season_selection_for_upload_AnySeason(m, tv_show) ==
    IF m.text = NoText THEN Raise("AttributeError")
    ELSE IF Lower(m.text) = tback THEN Raise("TypeError")
    ELSE LET season_number == PyInt(Remove(Strip(m.text), tSeason)) IN
         IF ~season_number.ok
         THEN Say(<<"Invalid season selection. Please try again.">>,
                  navigate_tv_show(m, tv_show))
         ELSE Ret(<<[name |-> "process_file_upload_batch", tv_show |-> tv_show,
                     item_type |-> kTVShow, season |-> Season(season_number.val)]>>,
                  <<"Please upload episode files with captions indicating the episode number.">>)

\* handle_back(message, back_callback, tv_show) calls process_upload_search(message,
\* tv_show), which lacks item_type; only ValueError is caught
process_season_selection_for_upload(m, tv_show) ==
    IF m.text = NoText THEN Raise("AttributeError")
    ELSE IF Lower(m.text) = tback THEN Raise("TypeError")
    ELSE LET season_number == PyInt(Remove(Strip(m.text), tSeason))
             Eq(x) == x.season_number = season_number.val
             season == First(tv_show.details.seasons, Eq)
         IN  IF ~season_number.ok
             THEN Say(<<"Invalid season selection. Please try again.">>,
                      navigate_tv_show(m, tv_show))
             ELSE IF season = 0
             THEN Say(<<"Season not found. Please try again.">>, navigate_tv_show(m, tv_show))
             ELSE Ret(<<[name |-> "process_file_upload_batch", tv_show |-> tv_show,
                         item_type |-> kTVShow,
                         season |-> tv_show.details.seasons[season]]>>,
                      <<"Please upload episode files with captions indicating the episode number.">>)

\* process_file_upload_batch up to its first store operation: what the run does next
Skip(text) == [kind |-> "reply", sent |-> <<text>>, episode_number |-> 0]
process_file_upload_batch(m, tv_show, item_type, season) ==
    IF m.content_type \notin {"document", "video"}
    THEN Skip("Please upload a valid file (video or document).")
    ELSE IF m.caption = NoText \/ m.caption = <<>>
    THEN Skip("Filename missing. Please upload the file again with a caption (e.g., '1.mp4').")
    ELSE IF item_type = kMovie
    THEN [kind |-> "movie", sent |-> <<>>, episode_number |-> 0]
    ELSE LET match == ReMatchDigits(Strip(m.caption)) IN
         IF ~match.ok
         THEN Skip("Caption does not follow the expected format. Skipping.")
         ELSE IF item_type = kTVShow /\ season # NoSeason
         THEN [kind |-> "episode", sent |-> <<>>, episode_number |-> match.val]
         ELSE Skip("Invalid context for file upload. Please try again.")

-----------------------------------------------------------------------------
(* The Fetch workflow (fetch.py) *)

\* fetch.py's own check_global_commands(message): r is what the caller goes on to do
check_global_commands_fetch(m, r) ==
    IF m.text = NoText THEN Raise("AttributeError")
    ELSE IF Lower(Strip(m.text)) = tStop
    THEN [Ret(<<>>, <<"Bot stopping. Goodbye!">>) EXCEPT !.exit = TRUE]
    ELSE IF Lower(Strip(m.text)) = tStart THEN Ret(<<>>, <<"Restarting the bot...">>)
    ELSE r

fetch_handler(m) ==
    check_global_commands_fetch(m,
        Ret(<<[name |-> "process_language_selection_for_fetch"]>>,
            <<"Choose a language to fetch titles:">>))

process_language_selection_for_fetch(m) ==
    check_global_commands_fetch(m,
        IF Lower(m.text) = tback THEN fetch_handler(m)
        ELSE LET language == Lower(Strip(m.text)) IN
             IF ~validate_input(Languages, language)
             THEN Say(<<"Invalid language selection. Try again.">>, fetch_handler(m))
             ELSE Ret(<<[name |-> "process_fetch_content_type", language |-> language]>>,
                      <<"Do you want to fetch Movies or TV Shows?">>))

\* a variant of find_language whose filter is empty: the whole collection
find_language_All(coll, language) == coll

\* collection.find({"language": language.lower()})
find_language(coll, language) ==
    LET Hit(d) == d.language = Lower(language) IN SelectSeq(coll, Hit)

\* the label of a keyboard button: f"Season {n}", f"Episode {n}"
SeasonButton(n) == "Season " \o ToString(n)
EpisodeButton(n) == "Episode " \o ToString(n)

\* a variant of EpisodeOptions that numbers the buttons by position in the list
EpisodeOptions_ByPosition(episodes) ==
    [k \in 1..Len(episodes) |-> EpisodeButton(k)] \o <<"Back">>

\* [f"Episode {ep['episode_number']}" for ep in episodes if ep.get("file_id")] + ["Back"]
EpisodeOptions(episodes) ==
    LET HasFile(e) == e.file_id # NoFile
        uploaded == SelectSeq(episodes, HasFile)
    IN  [k \in 1..Len(uploaded) |-> EpisodeButton(uploaded[k].episode_number)] \o <<"Back">>

RECURSIVE SeasonOptions(_)
SeasonOptions(seasons) ==
    IF seasons = <<>> THEN <<"Back">>
    ELSE <<SeasonButton(Head(seasons).season_number)>> \o SeasonOptions(Tail(seasons))

send_movie_details(m, movie) ==
    check_global_commands_fetch(m,
        IF movie.file_id # NoFile
        THEN Ret(<<>>, <<"Title, Overview, Release Date", "Here is the movie file:",
                         movie.file_id>>)
        ELSE Ret(<<>>, <<"Title, Overview, Release Date",
                         "No file has been uploaded for this movie yet.">>))

navigate_tv_show_for_fetch(m, tv_show) ==
    check_global_commands_fetch(m,
        IF tv_show.details.seasons = <<>>
        THEN Say(<<"No seasons found for this TV show.">>, fetch_handler(m))
        ELSE Ret(<<[name |-> "process_season_selection_for_fetch", tv_show |-> tv_show]>>,
                 <<"Select a season:">> \o SeasonOptions(tv_show.details.seasons)))

\* titles is what collection.find returned; a failing find is caught and answered
process_fetch_filter_method(m, language, content_type, dbok) ==
    check_global_commands_fetch(m,
        LET collection == IF content_type = Lower(tMovies) THEN movies ELSE tv_shows
            titles == find_language(collection, language)
        IN  IF ~dbok
            THEN Ret(<<>>, <<"An error occurred while fetching titles. Please try again.">>)
            ELSE IF titles = <<>>
            THEN Say(<<"No titles found in the selected language.">>, fetch_handler(m))
            ELSE Ret(<<[name |-> "process_fetch_selection", titles |-> titles]>>,
                     <<"Select a title:">>))

\* handle_back(message, process_language_selection_for_fetch, language): one argument
\* too many for process_language_selection_for_fetch
process_fetch_content_type(m, language, dbok) ==
    check_global_commands_fetch(m,
        IF Lower(m.text) = tback THEN Raise("TypeError")
        ELSE LET content_type == Lower(Strip(m.text)) IN
             IF content_type \notin {Lower(tMovies), Lower(tTVShows)}
             THEN Say(<<"Invalid selection. Please choose Movies or TV Shows.">>,
                      process_language_selection_for_fetch(m))
             ELSE process_fetch_filter_method(m, language, content_type, dbok))

process_fetch_selection(m, titles) ==
    check_global_commands_fetch(m,
        IF Lower(m.text) = tback THEN fetch_handler(m)
        ELSE LET selected_title == Strip(m.text)
                 Eq(t) == Lower(t.title) = Lower(selected_title)
                 match == First(titles, Eq)
             IN  IF match = 0
                 THEN Say(<<"Invalid selection. Please try again.">>, fetch_handler(m))
                 ELSE IF titles[match].type = kMovie
                 THEN send_movie_details(m, titles[match])
                 ELSE IF titles[match].type = kTVShow
                 THEN navigate_tv_show_for_fetch(m, titles[match])
                 ELSE Ret(<<>>, <<>>))

\* season["tv_show"] = tv_show: the step that follows is bound to the season and,
\* through it, to the show, both as they were read when the titles were listed
process_season_selection_for_fetch(m, tv_show) ==
    IF m.text = NoText THEN Raise("AttributeError")
    ELSE IF Lower(m.text) = tback THEN navigate_tv_show_for_fetch(m, tv_show)
    ELSE LET season_number == PyInt(Strip(Remove(m.text, tSeason)))
             Eq(x) == x.season_number = season_number.val
             season == First(tv_show.details.seasons, Eq)
         IN  IF ~season_number.ok
             THEN Say(<<"Invalid season format. Try again.">>,
                      navigate_tv_show_for_fetch(m, tv_show))
             ELSE IF season = 0
             THEN Say(<<"Invalid season. Try again.">>, navigate_tv_show_for_fetch(m, tv_show))
             ELSE Ret(<<[name |-> "process_episode_fetch",
                         season |-> tv_show.details.seasons[season], tv_show |-> tv_show]>>,
                      <<"Select an episode or press 'Back':">>
                          \o EpisodeOptions(tv_show.details.seasons[season].episodes))

\* season["episodes"] of a season that holds no "episodes" key raises KeyError, which
\* the except ValueError does not catch
process_episode_fetch(m, season, tv_show) ==
    IF m.text = NoText THEN Raise("AttributeError")
    ELSE IF Lower(m.text) = tback THEN process_season_selection_for_fetch(m, tv_show)
    ELSE LET episode_number == PyInt(Strip(Remove(m.text, tEpisode)))
             Eq(e) == e.episode_number = episode_number.val
             episode == First(season.episodes, Eq)
         IN  IF ~episode_number.ok
             THEN Say(<<"Invalid episode format. Try again.">>,
                      process_season_selection_for_fetch(m, tv_show))
             ELSE IF season.episodes = <<>> THEN Raise("KeyError")
             ELSE IF episode = 0 \/ season.episodes[episode].file_id = NoFile
             THEN Say(<<"Invalid episode or not uploaded. Try again.">>,
                      process_season_selection_for_fetch(m, tv_show))
             ELSE Ret(<<[name |-> "process_episode_fetch", season |-> season,
                         tv_show |-> tv_show]>>,
                      <<"Fetching episode.", season.episodes[episode].file_id,
                        "Select another episode or press 'Back':">>
                          \o EpisodeOptions(season.episodes))

-----------------------------------------------------------------------------
(* The state machine *)

Chats == {"c1", "c2"}
Groups == {"g1"}

tAddNewTitle == <<"A","d","d"," ","N","e","w"," ","T","i","t","l","e">>
tUpload == <<"U","p","l","o","a","d">>
tFetch == <<"F","e","t","c","h">>

NoEnv == [response |-> NoRequest, details |-> NoDetails, dbok |-> TRUE]
NoEvent == [chat |-> "none", msg |-> TextMsg(<<>>), at |-> "none", tmdb |-> "none", store |-> "none"]
Idle == [pc |-> "idle"]

\* the threads telebot runs the handlers on (threaded=True: a pool of two)
Workers == {"w1", "w2"}
Resting == [pc |-> "idle"]

Init ==
    /\ step = [c \in Chats |-> <<>>]
    /\ movies = <<>>
    /\ tv_shows = <<>>
    /\ channel = <<>>
    /\ att = [c \in Chats |-> Idle]
    /\ media_groups = [g \in Groups |-> <<>>]
    /\ ev = NoEvent
    /\ reply = <<>>
    /\ fault = "none"
    /\ running = TRUE
    /\ now = 0
    /\ calls = <<>>
    /\ workers = [w \in Workers |-> Resting]

IsMovieDoc(d) == d.type = kMovie
IsShowDoc(d) == d.type # kMovie

\* a variant of Handle in which a handler that registers nothing stays registered
Handle_KeepsHandler(c, m, at, r) ==
    /\ running
    /\ LET res == r IN
       /\ Len(movies) + Len(tv_shows) + Len(res.ins) <= MaxTitles
       /\ step' = [step EXCEPT ![c] = IF res.regs = <<>> THEN @ ELSE res.regs]
       /\ movies' = movies \o SelectSeq(res.ins, IsMovieDoc)
       /\ tv_shows' = tv_shows \o SelectSeq(res.ins, IsShowDoc)
       /\ reply' = res.sent
       /\ fault' = res.fault
       /\ running' = ~res.exit
    /\ ev' = [chat |-> c, msg |-> m, at |-> at, tmdb |-> r.tmdb,
              store |-> r.store]
    /\ UNCHANGED <<channel, att, media_groups, now, calls, workers>>

\* a variant of Handle in which the process outlives os._exit(0)
Handle_AfterExit(c, m, at, r) ==
    /\ LET res == r IN
       /\ Len(movies) + Len(tv_shows) + Len(res.ins) <= MaxTitles
       /\ step' = [step EXCEPT ![c] = res.regs]
       /\ movies' = movies \o SelectSeq(res.ins, IsMovieDoc)
       /\ tv_shows' = tv_shows \o SelectSeq(res.ins, IsShowDoc)
       /\ reply' = res.sent
       /\ fault' = res.fault
       /\ running' = ~res.exit
    /\ ev' = [chat |-> c, msg |-> m, at |-> at, tmdb |-> r.tmdb,
              store |-> r.store]
    /\ UNCHANGED <<channel, att, media_groups, now, calls, workers>>

\* One handler run of a conversation step: telebot has taken the chat's next-step
\* handlers off its list before it calls them, so what the run registers is the
\* chat's new list.
Handle(c, m, at, r) ==
    /\ running
    /\ LET res == r IN
       /\ Len(movies) + Len(tv_shows) + Len(res.ins) <= MaxTitles
       /\ step' = [step EXCEPT ![c] = res.regs]
       /\ movies' = movies \o SelectSeq(res.ins, IsMovieDoc)
       /\ tv_shows' = tv_shows \o SelectSeq(res.ins, IsShowDoc)
       /\ reply' = res.sent
       /\ fault' = res.fault
       /\ running' = ~res.exit
    /\ ev' = [chat |-> c, msg |-> m, at |-> at, tmdb |-> r.tmdb,
              store |-> r.store]
    /\ UNCHANGED <<channel, att, media_groups, now, calls, workers>>

\* the chat's single registered handler, when it has exactly one
At(c, name) == Len(step[c]) = 1 /\ step[c][1].name = name
Cur(c) == step[c][1]

\* global_handlers.start_handler: /start with no next-step handler registered
StartHandler(c) ==
    /\ step[c] = <<>>
    /\ Handle(c, TextMsg(tStart), "start_handler",
              Ret(<<>>, <<"Welcome to SparrowFlix! Please choose an option:">>))

\* "Add New Title" with no next-step handler registered
AddNewTitle(c) ==
    /\ step[c] = <<>>
    /\ Handle(c, TextMsg(tAddNewTitle), "add_new_title_handler",
              add_new_title_handler(TextMsg(tAddNewTitle)))

LanguageSelectionForAdd(c, m) ==
    /\ At(c, "process_language_selection_for_add")
    /\ Handle(c, m, "process_language_selection_for_add",
              check_global_commands(m, process_language_selection_for_add(m)))

TypeSelectionForAdd(c, m) ==
    /\ At(c, "process_type_selection_for_add")
    /\ Handle(c, m, "process_type_selection_for_add",
              check_global_commands(m, process_type_selection_for_add(m, Cur(c).language)))

\* whether handle_back sends the message back to the previous handler
IsBack(m) == m.text # NoText /\ Lower(m.text) = tback
IsGlobal(m) == m.text \in {tStop, tStart}

\* the selection process_tmdb_selection finds for the message (0: none)
TmdbMatch(m, results) ==
    LET Eq(r) == Lower(MatchLabel(r)) = Lower(Strip(m.text)) IN
    IF m.text = NoText THEN 0 ELSE First(results, Eq)

\* search_tmdb is called only on the paths that reach process_title_entry's search
TitleEntry(c, m) ==
    /\ At(c, "process_title_entry")
    /\ \E response \in (IF IsBack(m) \/ IsGlobal(m) \/ m.text = NoText
                        THEN {NoRequest} ELSE requests_get(Cur(c).item_type)) :
         LET env == [NoEnv EXCEPT !.response = response] IN
         Handle(c, m, "process_title_entry",
                check_global_commands(m,
                    process_title_entry(m, Cur(c).language, Cur(c).item_type, env)))

\* a selection that matches calls get_tmdb_details and insert_one; one that does not
\* calls process_title_entry, which searches
TmdbSelection(c, m) ==
    /\ At(c, "process_tmdb_selection")
    /\ LET valid == ~IsBack(m) /\ ~IsGlobal(m) /\ TmdbMatch(m, Cur(c).results) # 0
           searches == ~IsBack(m) /\ ~IsGlobal(m) /\ m.text # NoText /\ ~valid
       IN  \E response \in (IF searches THEN requests_get(Cur(c).item_type)
                                         ELSE {NoRequest}),
              details \in (IF valid THEN get_tmdb_details(Cur(c).item_type) ELSE {NoDetails}),
              dbok \in (IF valid THEN BOOLEAN ELSE {TRUE}) :
             LET env == [response |-> response, details |-> details, dbok |-> dbok] IN
             Handle(c, m, "process_tmdb_selection",
                    check_global_commands(m,
                        process_tmdb_selection(m, Cur(c).language, Cur(c).item_type,
                                               Cur(c).results, env)))

-----------------------------------------------------------------------------
(* The steps of the Upload workflow *)

\* "Upload" with no next-step handler registered; the operator starts over only when
\* the chat's last file has been answered
UploadStart(c) ==
    /\ step[c] = <<>>
    /\ att[c] = Idle
    /\ Handle(c, TextMsg(tUpload), "upload_handler", upload_handler(TextMsg(tUpload)))

LanguageSelectionForUpload(c, m) ==
    /\ At(c, "process_language_selection_for_upload")
    /\ Handle(c, m, "process_language_selection_for_upload",
              process_language_selection_for_upload(m))

TypeSelectionForUpload(c, m) ==
    /\ At(c, "process_type_selection_for_upload")
    /\ Handle(c, m, "process_type_selection_for_upload",
              process_type_selection_for_upload(m, Cur(c).language))

\* the store is queried only on the paths that reach collection.find
UploadSearch(c, m) ==
    /\ At(c, "process_upload_search")
    /\ \E dbok \in (IF IsBack(m) \/ m.text = NoText THEN {TRUE} ELSE BOOLEAN) :
         Handle(c, m, "process_upload_search",
                process_upload_search(m, Cur(c).language, Cur(c).item_type, dbok))

\* the title the selection step finds for the message (0: none)
UploadMatch(m, results) ==
    LET Eq(r) == Lower(r.title) = Lower(Strip(m.text)) IN
    IF m.text = NoText THEN 0 ELSE First(results, Eq)

UploadSelection(c, m) ==
    /\ At(c, "process_upload_selection")
    /\ \E dbok \in (IF IsBack(m) \/ m.text = NoText \/ UploadMatch(m, Cur(c).results) # 0
                    THEN {TRUE} ELSE BOOLEAN) :
         Handle(c, m, "process_upload_selection",
                process_upload_selection(m, Cur(c).language, Cur(c).item_type,
                                         Cur(c).results, dbok))

SeasonSelectionForUpload(c, m) ==
    /\ At(c, "process_season_selection_for_upload")
    /\ Handle(c, m, "process_season_selection_for_upload",
              process_season_selection_for_upload(m, Cur(c).tv_show))

-----------------------------------------------------------------------------
(* Files: process_file_upload_batch runs in a worker thread of the bot, one store *)
(* operation per step, so that the runs of two chats interleave                   *)

RECURSIVE EpisodeCount(_)
EpisodeCount(seasons) ==
    IF seasons = <<>> THEN 0 ELSE Len(Head(seasons).episodes) + EpisodeCount(Tail(seasons))
RECURSIVE TotalEpisodes(_)
TotalEpisodes(shows) ==
    IF shows = <<>> THEN 0
    ELSE EpisodeCount(Head(shows).details.seasons) + TotalEpisodes(Tail(shows))
InFlight == Cardinality({c \in Chats : att[c] # Idle})

\* the attach a run logs when it ends; only the two last are kept. The log keeps the
\* media group of the file, and whether the group had no pending event when it arrived.
Call(a) ==
    [id |-> a.id, season_number |-> a.season_number, episode_number |-> a.episode_number,
     file_id |-> a.msg.file_id, group |-> a.msg.media_group_id, first |-> a.first]
Logged(a) ==
    LET all == Append(calls, Call(a)) IN
    IF Len(all) > 2 THEN Tail(all) ELSE all

\* a variant of set_movie_file that stores nothing
set_movie_file_Nothing(coll, id, f) == coll

\* update_one({"_id": id}, {"$set": {"file_id": f}}) on the movies
set_movie_file(coll, id, f) ==
    [k \in 1..Len(coll) |-> IF coll[k]._id = id THEN [coll[k] EXCEPT !.file_id = f] ELSE coll[k]]
\* a variant of set_movie_link that writes the link as the whole document's content:
\* the file reference is gone
set_movie_link_Overwrite(coll, id, mid) ==
    [k \in 1..Len(coll) |->
        IF coll[k]._id = id
        THEN [coll[k] EXCEPT !.channel_message_id = mid, !.file_id = NoFile] ELSE coll[k]]

\* update_one({"_id": id}, {"$set": {"channel_message_id": mid}}) on the movies
set_movie_link(coll, id, mid) ==
    [k \in 1..Len(coll) |->
        IF coll[k]._id = id THEN [coll[k] EXCEPT !.channel_message_id = mid] ELSE coll[k]]

\* The next-step handler process_file_upload_batch up to its first store operation:
\* the $set of a movie's file, or the find_one of an episode. The handler is taken off
\* the chat's list before it runs and registers nothing.
FileUploadBatch(c, m) ==
    /\ running
    /\ At(c, "process_file_upload_batch")
    /\ att[c] = Idle
    /\ LET a == process_file_upload_batch(m, Cur(c).tv_show, Cur(c).item_type, Cur(c).season)
           run == [pc |-> "forward", msg |-> m, id |-> Cur(c).tv_show._id,
                   item_type |-> Cur(c).item_type,
                   season_number |-> Cur(c).season.season_number,
                   episode_number |-> a.episode_number, existing |-> FALSE,
                   first |-> (m.media_group_id # NoGroup
                                => media_groups[m.media_group_id] = <<>>)]
       IN  /\ a.kind # "reply" =>
                /\ TotalEpisodes(tv_shows) + InFlight < MaxEpisodes
                /\ Len(channel) + InFlight < MaxChannel
           /\ step' = [step EXCEPT ![c] = <<>>]
           /\ reply' = a.sent
           /\ movies' = IF a.kind = "movie"
                        THEN set_movie_file(movies, run.id, m.file_id) ELSE movies
           /\ att' = IF a.kind = "movie" THEN [att EXCEPT ![c] = run]
                     ELSE IF a.kind = "episode"
                     THEN [att EXCEPT ![c] =
                              [run EXCEPT !.pc = "write",
                                          !.existing = find_one_episode(tv_shows, run.id,
                                              run.season_number, run.episode_number)]]
                     ELSE att
    /\ fault' = "none"
    /\ ev' = [chat |-> c, msg |-> m, at |-> "process_file_upload_batch", tmdb |-> "none", store |-> "none"]
    /\ UNCHANGED <<tv_shows, channel, media_groups, running, now, calls, workers>>

\* lines 176-193 and the except of 212-214: the update of the existing episode, or the
\* $push of a new one
EpisodeWrite(c) ==
    /\ running
    /\ att[c].pc = "write"
    /\ LET a == att[c]
           k == DocIdx(tv_shows, a.id)
           doc == tv_shows[k]
       IN  IF a.existing
           THEN \E pos \in PositionalChoices(doc, a.season_number, a.episode_number) :
                  LET r == update_episode_file(doc, pos, a.episode_number, a.msg.file_id) IN
                  /\ tv_shows' = [tv_shows EXCEPT ![k] = r.doc]
                  /\ att' = [att EXCEPT ![c] = IF r.ok THEN [a EXCEPT !.pc = "forward"] ELSE Idle]
                  /\ reply' = IF r.ok THEN <<>>
                              ELSE <<"An error occurred while updating the database.">>
                  /\ calls' = IF r.ok THEN calls ELSE Logged(a)
           ELSE /\ tv_shows' = [tv_shows EXCEPT ![k] =
                                   push_episode(doc, a.season_number, a.episode_number,
                                                a.msg.file_id)]
                /\ att' = [att EXCEPT ![c].pc = "forward"]
                /\ reply' = <<>>
                /\ calls' = calls
    /\ fault' = "none"
    /\ ev' = [chat |-> c, msg |-> att[c].msg, at |-> "update_one", tmdb |-> "none", store |-> "none"]
    /\ UNCHANGED <<step, movies, channel, media_groups, running, now, workers>>

\* forward_to_storage_channel and the answer to the chat: send_document may fail, and
\* so may the update of the link (the store is unreachable, or the episodes path is not
\* there); both are caught and give None
ForwardToStorageChannel(c) ==
    /\ running
    /\ att[c].pc = "forward"
    /\ \E sendok \in BOOLEAN :
       \E dbok \in (IF sendok THEN BOOLEAN ELSE {TRUE}) :
         LET a == att[c]
             mid == Len(channel) + 1
             k == DocIdx(tv_shows, a.id)
             linked == a.item_type = kTVShow /\ a.season_number # 0 /\ a.episode_number # 0
             r == IF linked
                  THEN update_episode_link(tv_shows[k], a.season_number, a.episode_number, mid)
                  ELSE [ok |-> TRUE, doc |-> <<>>]
         IN  /\ channel' = IF sendok THEN Append(channel, a.msg.file_id) ELSE channel
             /\ movies' = IF sendok /\ dbok /\ a.item_type = kMovie
                          THEN set_movie_link(movies, a.id, mid) ELSE movies
             /\ tv_shows' = IF sendok /\ dbok /\ linked THEN [tv_shows EXCEPT ![k] = r.doc]
                            ELSE tv_shows
             /\ reply' = IF sendok /\ dbok /\ r.ok
                         THEN <<"Uploaded and forwarded to channel successfully.">>
                         ELSE <<"Uploaded successfully, but forwarding to channel failed.">>
             /\ calls' = IF a.item_type = kTVShow THEN Logged(a) ELSE calls
    /\ att' = [att EXCEPT ![c] = Idle]
    /\ fault' = "none"
    /\ ev' = [chat |-> c, msg |-> att[c].msg, at |-> "forward_to_storage_channel", tmdb |-> "none", store |-> "none"]
    /\ UNCHANGED <<step, media_groups, running, now, workers>>

\* what the operator types in the Add workflow, and a file sent instead of a text
AddMessages ==
    {TextMsg(t) : t \in {tEnglish, Lower(tHebrew), tMovie, tTVShow, tBack, tStop, tStart,
                         tdune, tLost, tDune5, tJunk}}
    \cup {FileMsg("f1", <<"1">>, NoGroup)}

AddChats == {"c1"}

NextAdd ==
    \E c \in AddChats :
        \/ StartHandler(c)
        \/ AddNewTitle(c)
        \/ \E m \in AddMessages :
            \/ LanguageSelectionForAdd(c, m)
            \/ TypeSelectionForAdd(c, m)
            \/ TitleEntry(c, m)
            \/ TmdbSelection(c, m)

SpecAdd == Init /\ [][NextAdd]_vars

-----------------------------------------------------------------------------
(* Media groups (upload.py) and the clock *)

\* handle_media_group: the append, and for more than one message the call
\* process_file_upload_batch(media_groups[id], chat_id), whose first statement reads
\* message.chat of the list; the del after the call is not reached
handle_media_group(m) ==
    LET id == m.media_group_id
        groups == [media_groups EXCEPT ![id] = Append(@, m)]
    IN  IF Len(groups[id]) > 1
        THEN [groups |-> groups, fault |-> "AttributeError"]
        ELSE [groups |-> groups, fault |-> "none"]

\* a video or document with a media_group_id, for a chat without next-step handler
\* (a registered next-step handler takes the message before the message handlers)
HandleMediaGroup(c, m) ==
    /\ running
    /\ step[c] = <<>>
    /\ m.content_type \in {"video", "document"}
    /\ m.media_group_id # NoGroup
    /\ Len(media_groups[m.media_group_id]) < MaxGroup
    /\ media_groups' = handle_media_group(m).groups
    /\ fault' = handle_media_group(m).fault
    /\ reply' = <<>>
    /\ ev' = [chat |-> c, msg |-> m, at |-> "handle_media_group", tmdb |-> "none", store |-> "none"]
    /\ UNCHANGED <<step, movies, tv_shows, channel, att, running, now, calls, workers>>

Tick ==
    /\ now < MaxTime
    /\ now' = now + 1
    /\ ev' = [NoEvent EXCEPT !.at = "tick"]
    /\ UNCHANGED <<step, movies, tv_shows, channel, att, media_groups, reply, fault,
                   running, calls, workers>>

\* handle_media_group statement by statement, as a worker thread runs it next to the
\* other: the test "media_group_id not in media_groups" (line 233) ...
MediaGroupTest(w, c, m) ==
    /\ running
    /\ workers[w] = Resting
    /\ step[c] = <<>>
    /\ m.content_type \in {"video", "document"}
    /\ m.media_group_id # NoGroup
    /\ Len(media_groups[m.media_group_id])
         + Cardinality({v \in Workers : workers[v].pc = "tested"}) < MaxGroup
    /\ workers' = [workers EXCEPT ![w] =
                     [pc |-> "tested", chat |-> c, msg |-> m,
                      absent |-> media_groups[m.media_group_id] = <<>>]]
    /\ ev' = [chat |-> c, msg |-> m, at |-> "handle_media_group", tmdb |-> "none", store |-> "none"]
    /\ UNCHANGED <<step, movies, tv_shows, channel, att, media_groups, reply, fault,
                   running, now, calls>>

\* ... the assignment of [] when the test found no key, and the append (lines 234-237)
MediaGroupAppend(w) ==
    /\ running
    /\ workers[w].pc = "tested"
    /\ LET m == workers[w].msg IN
       media_groups' = [media_groups EXCEPT ![m.media_group_id] =
                           Append(IF workers[w].absent THEN <<>> ELSE @, m)]
    /\ workers' = [workers EXCEPT ![w].pc = "appended"]
    /\ ev' = [chat |-> workers[w].chat, msg |-> workers[w].msg, at |-> "append",
              tmdb |-> "none", store |-> "none"]
    /\ UNCHANGED <<step, movies, tv_shows, channel, att, reply, fault, running, now, calls>>

\* ... and the test of the length with the call it guards (lines 241-244)
MediaGroupProcess(w) ==
    /\ running
    /\ workers[w].pc = "appended"
    /\ fault' = IF Len(media_groups[workers[w].msg.media_group_id]) > 1
                THEN "AttributeError" ELSE "none"
    /\ reply' = <<>>
    /\ workers' = [workers EXCEPT ![w] = Resting]
    /\ ev' = [chat |-> workers[w].chat, msg |-> workers[w].msg, at |-> "len",
              tmdb |-> "none", store |-> "none"]
    /\ UNCHANGED <<step, movies, tv_shows, channel, att, media_groups, running, now, calls>>

-----------------------------------------------------------------------------
(* The Upload workflow over a catalog the Add workflow has filled *)

\* what two runs of the Add workflow leave: the show Dune, in English, with two
\* seasons, and the movie Dune, in Hebrew
DuneShow ==
    [_id |-> 1, title |-> tDune, language |-> Lower(tEnglish), type |-> kTVShow,
     details |-> [found |-> TRUE, seasons |-> <<Season(1), Season(2)>>],
     file_id |-> NoFile, channel_message_id |-> 0]
DuneMovie ==
    [_id |-> 2, title |-> tDune, language |-> Lower(tHebrew), type |-> kMovie,
     details |-> [found |-> TRUE, seasons |-> <<>>],
     file_id |-> NoFile, channel_message_id |-> 0]

InitUpload ==
    /\ step = [c \in Chats |-> <<>>]
    /\ movies = <<DuneMovie>>
    /\ tv_shows = <<DuneShow>>
    /\ channel = <<>>
    /\ att = [c \in Chats |-> Idle]
    /\ media_groups = [g \in Groups |-> <<>>]
    /\ ev = NoEvent
    /\ reply = <<>>
    /\ fault = "none"
    /\ running = TRUE
    /\ now = 0
    /\ calls = <<>>
    /\ workers = [w \in Workers |-> Resting]

\* what one operator types in the Upload workflow, and the files they send
UploadMessages ==
    {TextMsg(t) : t \in {tEnglish, tMovie, tTVShow, tBack, tStop, tStart, tdune, tJunk,
                         tSeason1, tSeason2, tSeason9}}
    \cup {FileMsg("f1", <<"1">>, NoGroup), FileMsg("f2", <<"1">>, NoGroup)}

UploadStep(c, m) ==
    \/ LanguageSelectionForUpload(c, m)
    \/ TypeSelectionForUpload(c, m)
    \/ UploadSearch(c, m)
    \/ UploadSelection(c, m)
    \/ SeasonSelectionForUpload(c, m)
    \/ FileUploadBatch(c, m)

UploadChats == {"c1"}

NextUpload ==
    \E c \in UploadChats :
        \/ UploadStart(c)
        \/ \E m \in UploadMessages : UploadStep(c, m)
        \/ EpisodeWrite(c)
        \/ ForwardToStorageChannel(c)

SpecUpload == InitUpload /\ [][NextUpload]_vars

\* what an operator who follows the prompts answers at the chat's step: a button of
\* the keyboard, the title they look for
Prompted(c) ==
    IF step[c] = <<>> THEN {}
    ELSE CASE Cur(c).name = "process_language_selection_for_upload" -> {TextMsg(tEnglish)}
           [] Cur(c).name = "process_type_selection_for_upload" -> {TextMsg(tTVShow)}
           [] Cur(c).name = "process_upload_search" -> {TextMsg(tdune)}
           [] Cur(c).name = "process_upload_selection" ->
                  {TextMsg(Cur(c).results[k].title) : k \in 1..Len(Cur(c).results)}
           [] Cur(c).name = "process_season_selection_for_upload" ->
                  {TextMsg(tSeason1), TextMsg(tSeason2)}
           [] OTHER -> {}

PromptedStep(c, m) ==
    \/ m \in Prompted(c) /\ LanguageSelectionForUpload(c, m)
    \/ m \in Prompted(c) /\ TypeSelectionForUpload(c, m)
    \/ m \in Prompted(c) /\ UploadSearch(c, m)
    \/ m \in Prompted(c) /\ UploadSelection(c, m)
    \/ m \in Prompted(c) /\ SeasonSelectionForUpload(c, m)

\* two operators, each with a file of their own for episode 1
AttachTexts == {TextMsg(t) : t \in {tEnglish, tTVShow, tdune, tDune, tSeason1, tSeason2}}
AttachFile(c) == FileMsg(IF c = "c1" THEN "f1" ELSE "f2", <<"1">>, NoGroup)

NextAttach ==
    \E c \in Chats :
        \/ UploadStart(c)
        \/ \E m \in AttachTexts : PromptedStep(c, m)
        \/ FileUploadBatch(c, AttachFile(c))
        \/ EpisodeWrite(c)
        \/ ForwardToStorageChannel(c)

SpecAttach == InitUpload /\ [][NextAttach]_vars

\* one operator who follows the prompts to season 1 and sends an album of three files
BatchTexts == {TextMsg(t) : t \in {tEnglish, tTVShow, tdune, tDune, tSeason1}}
BatchFiles ==
    {FileMsg("f1", <<"1",".","m","p","4">>, "g1"),
     FileMsg("f2", <<"2",".","m","p","4">>, "g1"),
     FileMsg("f3", <<"b","a","d">>, "g1")}

NextBatch ==
    \/ Tick
    \/ \E c \in UploadChats :
        \/ UploadStart(c)
        \/ \E m \in BatchTexts : PromptedStep(c, m)
        \/ \E f \in BatchFiles :
            LET m == [f EXCEPT !.date = now] IN
            FileUploadBatch(c, m) \/ HandleMediaGroup(c, m)
        \/ EpisodeWrite(c)
        \/ ForwardToStorageChannel(c)

SpecBatch == InitUpload /\ [][NextBatch]_vars

\* an album of three files whose messages the two worker threads handle side by side
RaceChats == {"c1"}

NextRace ==
    \/ Tick
    \/ \E w \in Workers :
        \/ \E c \in RaceChats : \E f \in BatchFiles :
              MediaGroupTest(w, c, [f EXCEPT !.date = now])
        \/ MediaGroupAppend(w)
        \/ MediaGroupProcess(w)

SpecRace == InitUpload /\ [][NextRace]_vars

\* What the scheduling of the program guarantees: the clock goes on and a worker
\* thread that has begun handle_media_group runs it to its end. Nothing makes a user
\* send another message.
FairRace ==
    /\ WF_vars(Tick)
    /\ \A w \in Workers : WF_vars(MediaGroupAppend(w)) /\ WF_vars(MediaGroupProcess(w))
SpecSweep == SpecRace /\ FairRace

-----------------------------------------------------------------------------
(* The steps of the Fetch workflow, and a fetching chat next to an uploading one *)

\* "Fetch" with no next-step handler registered
FetchStart(c) ==
    /\ step[c] = <<>>
    /\ Handle(c, TextMsg(tFetch), "fetch_handler", fetch_handler(TextMsg(tFetch)))

LanguageSelectionForFetch(c, m) ==
    /\ At(c, "process_language_selection_for_fetch")
    /\ Handle(c, m, "process_language_selection_for_fetch",
              process_language_selection_for_fetch(m))

\* the store is queried only when the text is one of the two content types
FetchContentType(c, m) ==
    /\ At(c, "process_fetch_content_type")
    /\ \E dbok \in (IF m.text # NoText
                        /\ Lower(Strip(m.text)) \in {Lower(tMovies), Lower(tTVShows)}
                    THEN BOOLEAN ELSE {TRUE}) :
         Handle(c, m, "process_fetch_content_type",
                process_fetch_content_type(m, Cur(c).language, dbok))

FetchSelection(c, m) ==
    /\ At(c, "process_fetch_selection")
    /\ Handle(c, m, "process_fetch_selection", process_fetch_selection(m, Cur(c).titles))

SeasonSelectionForFetch(c, m) ==
    /\ At(c, "process_season_selection_for_fetch")
    /\ Handle(c, m, "process_season_selection_for_fetch",
              process_season_selection_for_fetch(m, Cur(c).tv_show))

EpisodeFetch(c, m) ==
    /\ At(c, "process_episode_fetch")
    /\ Handle(c, m, "process_episode_fetch",
              process_episode_fetch(m, Cur(c).season, Cur(c).tv_show))

\* what the fetching user types, and a file sent instead of a text
FetchMessages ==
    {TextMsg(t) : t \in {tEnglish, tHebrew, tMovies, tTVShows, tDune, tBack, tStart, tJunk,
                         tSeason1, tEpisode1, tEpisode2}}
    \cup {FileMsg("f1", <<"1">>, NoGroup)}

FetchStep(c, m) ==
    \/ LanguageSelectionForFetch(c, m)
    \/ FetchContentType(c, m)
    \/ FetchSelection(c, m)
    \/ SeasonSelectionForFetch(c, m)
    \/ EpisodeFetch(c, m)

FetchChats == {"c1"}
FetchUploaders == {"c2"}
FetchFiles == {FileMsg("f1", <<"1">>, NoGroup), FileMsg("f2", <<"2">>, NoGroup)}

\* chat c1 fetches while the operator of chat c2 follows the prompts of Upload
NextFetch ==
    \/ \E c \in FetchChats :
        \/ FetchStart(c)
        \/ \E m \in FetchMessages : FetchStep(c, m)
    \/ \E c \in FetchUploaders :
        \/ UploadStart(c)
        \/ \E m \in BatchTexts : PromptedStep(c, m)
        \/ \E f \in FetchFiles : FileUploadBatch(c, f)
        \/ EpisodeWrite(c)
        \/ ForwardToStorageChannel(c)

SpecFetch == InitUpload /\ [][NextFetch]_vars

\* a chat that can stop the bot from the Add and the Fetch workflow while the worker
\* threads handle the album of another chat
StopMessages == {TextMsg(tEnglish), TextMsg(tStop)}
StopChats == {"c1"}
AlbumChats == {"c2"}

NextStop ==
    \/ Tick
    \/ \E c \in StopChats :
        \/ AddNewTitle(c)
        \/ FetchStart(c)
        \/ \E m \in StopMessages :
            \/ LanguageSelectionForAdd(c, m)
            \/ TypeSelectionForAdd(c, m)
            \/ LanguageSelectionForFetch(c, m)
            \/ FetchContentType(c, m)
    \/ \E w \in Workers :
        \/ \E c \in AlbumChats : \E f \in BatchFiles :
              MediaGroupTest(w, c, [f EXCEPT !.date = now])
        \/ MediaGroupAppend(w)
        \/ MediaGroupProcess(w)

SpecStop == InitUpload /\ [][NextStop]_vars

\* The conversation steps as telebot's worker threads run them. The polling thread
\* gives a message to the chat's next-step handlers, which it takes off the chat's
\* list, or, when the list is empty, to the message handler whose filter matches; the
\* callback runs on a worker thread, and what it registers is appended to the list.
EntryHandlers ==
    [t \in {tAddNewTitle, tUpload} |->
        IF t = tUpload THEN <<[name |-> "upload_handler"]>>
        ELSE <<[name |-> "add_new_title_handler"]>>]

\* the callback of a registered handler, applied to the message
Callback(h, m) ==
    CASE h.name = "add_new_title_handler" -> add_new_title_handler(m)
      [] h.name = "upload_handler" -> upload_handler(m)
      [] h.name = "process_language_selection_for_add" ->
            check_global_commands(m, process_language_selection_for_add(m))
      [] h.name = "process_type_selection_for_add" ->
            check_global_commands(m, process_type_selection_for_add(m, h.language))
      [] h.name = "process_language_selection_for_upload" ->
            process_language_selection_for_upload(m)
      [] h.name = "process_type_selection_for_upload" ->
            process_type_selection_for_upload(m, h.language)

\* the steps whose callbacks need neither the store nor the metadata source
EarlySteps ==
    {"process_language_selection_for_add", "process_type_selection_for_add",
     "process_language_selection_for_upload", "process_type_selection_for_upload"}

\* the polling thread hands the message to a worker: the chat's handlers leave its list
StepDispatch(w, c, m) ==
    /\ running
    /\ workers[w] = Resting
    /\ Len(step[c]) = 1
    /\ step[c][1].name \in EarlySteps
    /\ workers' = [workers EXCEPT ![w] =
                     [pc |-> "callback", chat |-> c, msg |-> m, handler |-> step[c][1]]]
    /\ step' = [step EXCEPT ![c] = <<>>]
    /\ ev' = [chat |-> c, msg |-> m, at |-> "notify_next_handlers", tmdb |-> "none", store |-> "none"]
    /\ UNCHANGED <<movies, tv_shows, channel, att, media_groups, reply, fault, running,
                   now, calls>>

\* ... or, with no next-step handler on the chat's list, the matching message handler
EntryDispatch(w, c, m) ==
    /\ running
    /\ workers[w] = Resting
    /\ step[c] = <<>>
    /\ m.text \in DOMAIN EntryHandlers
    /\ workers' = [workers EXCEPT ![w] =
                     [pc |-> "callback", chat |-> c, msg |-> m,
                      handler |-> EntryHandlers[m.text][1]]]
    /\ ev' = [chat |-> c, msg |-> m, at |-> "notify_command_handlers", tmdb |-> "none", store |-> "none"]
    /\ UNCHANGED <<step, movies, tv_shows, channel, att, media_groups, reply, fault,
                   running, now, calls>>

\* the worker runs the callback: register_next_step_handler appends to the chat's list
RunCallback(w) ==
    /\ running
    /\ workers[w].pc = "callback"
    /\ LET res == Callback(workers[w].handler, workers[w].msg) IN
       /\ step' = [step EXCEPT ![workers[w].chat] = @ \o res.regs]
       /\ reply' = res.sent
       /\ fault' = res.fault
       /\ running' = ~res.exit
    /\ workers' = [workers EXCEPT ![w] = Resting]
    /\ ev' = [chat |-> workers[w].chat, msg |-> workers[w].msg,
              at |-> workers[w].handler.name, tmdb |-> "none", store |-> "none"]
    /\ UNCHANGED <<movies, tv_shows, channel, att, media_groups, now, calls>>

ThreadMessages ==
    {TextMsg(t) : t \in {tAddNewTitle, tUpload, tEnglish, tMovie, tJunk}}
ThreadChats == {"c1"}

NextThreads ==
    \E w \in Workers :
        \/ \E c \in ThreadChats : \E m \in ThreadMessages :
            \/ StepDispatch(w, c, m)
            \/ EntryDispatch(w, c, m)
        \/ RunCallback(w)

SpecThreads == InitUpload /\ [][NextThreads]_vars

\* one chat that adds titles and lists them with Fetch, starting from an empty store
ListMessages ==
    {TextMsg(t) : t \in {tEnglish, Lower(tHebrew), tMovie, tTVShow, tMovies, tTVShows,
                         tdune, tDune, tBack, tSeason1}}
ListChats == {"c1"}

NextList ==
    \E c \in ListChats :
        \/ AddNewTitle(c)
        \/ FetchStart(c)
        \/ \E m \in ListMessages :
            \/ LanguageSelectionForAdd(c, m)
            \/ TypeSelectionForAdd(c, m)
            \/ TitleEntry(c, m)
            \/ TmdbSelection(c, m)
            \/ FetchStep(c, m)

SpecList == Init /\ [][NextList]_vars

\* one chat that adds titles and attaches files to them, starting from an empty store
WorkMessages ==
    {TextMsg(t) : t \in {tEnglish, tMovie, tTVShow, tdune, tDune, tSeason1, tBack}}
    \cup {FileMsg("f1", <<"1">>, NoGroup)}
WorkChats == {"c1"}

NextWork ==
    \E c \in WorkChats :
        \/ AddNewTitle(c)
        \/ UploadStart(c)
        \/ \E m \in WorkMessages :
            \/ LanguageSelectionForAdd(c, m)
            \/ TypeSelectionForAdd(c, m)
            \/ TitleEntry(c, m)
            \/ TmdbSelection(c, m)
            \/ UploadStep(c, m)
        \/ EpisodeWrite(c)
        \/ ForwardToStorageChannel(c)

SpecWork == Init /\ [][NextWork]_vars

-----------------------------------------------------------------------------
(* Claims about the Add workflow, under SpecAdd *)

\* the step of chat c that handles the message of this transition
Handles(c, name) == At(c, name) /\ ev'.chat = c /\ ev'.at = name
\* a message a step takes as its own input: a text, neither back nor a global command
IsInput(m) == m.text # NoText /\ ~IsBack(m) /\ ~IsGlobal(m)
ValidLanguage(t) == Lower(Strip(t)) \in {Lower(l) : l \in Languages}
ValidKind(t) == Lower(Strip(t)) \in {Lower(k) : k \in ItemTypes}
\* the candidates of a result list whose keyboard label is the text, whatever the case
Selected(results, t) ==
    {k \in 1..Len(results) : Lower(OptionLabel(results[k])) = Lower(Strip(t))}
StoreError == <<"An error occurred while saving the title. Try again later.">>

C6_Language(c) ==
    Handles(c, "process_language_selection_for_add")
        /\ IsInput(ev'.msg) /\ ValidLanguage(ev'.msg.text)
    => step'[c] = <<[name |-> "process_type_selection_for_add",
                     language |-> Lower(Strip(ev'.msg.text))]>>

C6_Kind(c) ==
    Handles(c, "process_type_selection_for_add")
        /\ IsInput(ev'.msg) /\ ValidKind(ev'.msg.text)
    => step'[c] = <<[name |-> "process_title_entry", language |-> Cur(c).language,
                     item_type |-> Lower(Strip(ev'.msg.text))]>>

C6_Query(c) ==
    Handles(c, "process_title_entry") /\ IsInput(ev'.msg)
    => \/ step'[c] = <<Cur(c)>>
       \/ /\ Len(step'[c]) = 1
          /\ step'[c][1].name = "process_tmdb_selection"
          /\ step'[c][1].language = Cur(c).language
          /\ step'[c][1].item_type = Cur(c).item_type
          /\ step'[c][1].results # <<>>

C6_Selection(c) ==
    Handles(c, "process_tmdb_selection") /\ IsInput(ev'.msg)
        /\ Selected(Cur(c).results, ev'.msg.text) # {} /\ reply' # StoreError
    => LET coll == Collection(Cur(c).item_type)
           coll2 == IF Cur(c).item_type = kMovie THEN movies' ELSE tv_shows'
           d == coll2[Len(coll2)]
       IN  /\ Len(movies') + Len(tv_shows') = Len(movies) + Len(tv_shows) + 1
           /\ Len(coll2) = Len(coll) + 1
           /\ SubSeq(coll2, 1, Len(coll)) = coll
           /\ d.language = Cur(c).language
           /\ d.type = Cur(c).item_type
           /\ d.title \in {OptionLabel(Cur(c).results[k]) :
                              k \in Selected(Cur(c).results, ev'.msg.text)}

\* C6: a valid language, a valid kind, a query with at least one match and a valid
\* selection lead, step by step, to the insertion of exactly one new Title whose
\* language, kind and title are the chosen language, the chosen kind and the label of
\* the selected candidate.
C6_AddInsertsOneTitle ==
    [][\A c \in Chats : C6_Language(c) /\ C6_Kind(c) /\ C6_Query(c) /\ C6_Selection(c)]_vars

\* a show was just saved in Hebrew from the selection step
C6_Witness ==
    /\ ev.at = "process_tmdb_selection"
    /\ reply = <<"Title added successfully.">>
    /\ Len(tv_shows) = 1
    /\ tv_shows[1].title = tDune
    /\ tv_shows[1].language = Lower(tHebrew)
    /\ tv_shows[1].type = kTVShow

\* C7: the store never holds two records of one title, language and kind (a second,
\* identical Add is refused as a duplicate and adds nothing).
C7_NoSecondRecord ==
    \A coll \in {movies, tv_shows} : \A i, j \in 1..Len(coll) :
        (coll[i].title = coll[j].title /\ coll[i].language = coll[j].language
            /\ coll[i].type = coll[j].type) => i = j

\* C3: "back" at a step of the Add workflow makes the preceding step the active one,
\* with the arguments it had.
C3_BackRestoresPrecedingStep ==
    [][\A c \in Chats :
        /\ Handles(c, "process_type_selection_for_add") /\ IsBack(ev'.msg)
           => step'[c] = <<[name |-> "process_language_selection_for_add"]>>
        /\ Handles(c, "process_title_entry") /\ IsBack(ev'.msg)
           => step'[c] = <<[name |-> "process_type_selection_for_add",
                            language |-> Cur(c).language]>>
        /\ Handles(c, "process_tmdb_selection") /\ IsBack(ev'.msg)
           => step'[c] = <<[name |-> "process_title_entry", language |-> Cur(c).language,
                            item_type |-> Cur(c).item_type]>>]_vars

-----------------------------------------------------------------------------
(* Claims about the Upload workflow and the attach of files *)

\* the step handler of chat c that handles the message of this transition
HandlesStep(c) == step[c] # <<>> /\ ev'.chat = c /\ ev'.at = step[c][1].name

\* the episode records numbered n in the seasons numbered s of the show id
EpisodeRecords(id, s, n) ==
    LET doc == tv_shows[DocIdx(tv_shows, id)]
        IsN(e) == e.episode_number = n
        RECURSIVE Of(_)
        Of(seasons) ==
            IF seasons = <<>> THEN <<>>
            ELSE (IF Head(seasons).season_number = s
                  THEN SelectSeq(Head(seasons).episodes, IsN) ELSE <<>>) \o Of(Tail(seasons))
    IN  Of(doc.details.seasons)

\* C1: when two attaches in succession went to the same title, season and episode
\* number with different files, the season holds exactly one record of that number, and
\* its file is the file of the second attach.
C1_SecondAttachUpdatesInPlace ==
    (/\ \A c \in Chats : att[c] = Idle
     /\ Len(calls) = 2
     /\ calls[1].id = calls[2].id
     /\ calls[1].season_number = calls[2].season_number
     /\ calls[1].episode_number = calls[2].episode_number
     /\ calls[1].file_id # calls[2].file_id)
    => LET records == EpisodeRecords(calls[2].id, calls[2].season_number,
                                     calls[2].episode_number)
       IN  Len(records) = 1 /\ records[1].file_id = calls[2].file_id

\* C2: under every interleaving of the attaches, no season holds two episode records
\* of one episode number.
C2_NoDuplicateEpisodeNumbers ==
    \A k \in 1..Len(tv_shows) : \A i \in 1..Len(tv_shows[k].details.seasons) :
        LET eps == tv_shows[k].details.seasons[i].episodes IN
        \A a, b \in 1..Len(eps) : eps[a].episode_number = eps[b].episode_number => a = b

\* what a chat is sent when a global command is handled as one
GlobalReplies ==
    {<<>>, <<"Bot is stopping. Goodbye!">>,
     <<"Welcome to SparrowFlix! Please choose an option:">>}

\* C4: at every step, a stop or start token is taken by the global-command check before
\* the step looks at it: the step sends none of its own answers (no validation error,
\* no search result, no prompt) and registers no step of the workflow.
C4_GlobalCommandsFirst ==
    [][\A c \in Chats :
        HandlesStep(c) /\ IsGlobal(ev'.msg)
        => step'[c] = <<>> /\ reply' \in GlobalReplies]_vars

\* C5: a stop token at any step ends the chat's session (no step stays registered) and
\* no exception leaves the handler.
C5_StopEndsSession ==
    [][\A c \in Chats :
        HandlesStep(c) /\ ev'.msg.text = tStop
        => step'[c] = <<>> /\ fault' = "none"]_vars

-----------------------------------------------------------------------------
(* Claims about batches of files, under SpecBatch *)

\* threading.Timer(1.0, process_media_group, ...): the quiet interval, in ticks
QuietInterval == 1

\* the transition in which handle_media_group of chat c, having appended the message
\* to group g, goes on to process the group
Flushes(c, g) ==
    /\ step[c] = <<>>
    /\ ev'.chat = c
    /\ ev'.at = "handle_media_group"
    /\ ev'.msg.media_group_id = g
    /\ Len(Append(media_groups[g], ev'.msg)) > 1

\* the file events that flush takes
Batch(g) == Append(media_groups[g], ev'.msg)

\* some season holds an episode numbered n with the file f
Attached(shows, n, f) ==
    \E k \in 1..Len(shows) : \E i \in 1..Len(shows[k].details.seasons) :
        \E e \in 1..Len(shows[k].details.seasons[i].episodes) :
            /\ shows[k].details.seasons[i].episodes[e].episode_number = n
            /\ shows[k].details.seasons[i].episodes[e].file_id = f

MalformedReport == "Caption does not follow the expected format. Skipping."
Malformed(m) == ~ReMatchDigits(Strip(m.caption)).ok

\* C8: when a batch is processed, every file whose caption begins with an integer n is
\* an episode n of the catalog afterwards, and every file without one is answered by
\* one malformed-caption report, which does not keep the other files from being attached.
C8_BatchAttachesEachFile ==
    [][\A c \in Chats : \A g \in Groups :
        Flushes(c, g)
        => /\ \A i \in 1..Len(Batch(g)) :
                ~Malformed(Batch(g)[i])
                => Attached(tv_shows', ReMatchDigits(Strip(Batch(g)[i].caption)).val,
                            Batch(g)[i].file_id)
           /\ Cardinality({j \in 1..Len(reply') : reply'[j] = MalformedReport})
                = Cardinality({i \in 1..Len(Batch(g)) : Malformed(Batch(g)[i])})]_vars

\* C9: a group is processed only when a full quiet interval has passed since each of
\* its file events, the last one included.
C9_FlushAfterQuietInterval ==
    [][\A c \in Chats : \A g \in Groups :
        Flushes(c, g)
        => \A i \in 1..Len(Batch(g)) : now' - Batch(g)[i].date >= QuietInterval]_vars

\* C10: the processing of a group hands every file event of the group on (it is not
\* left by an exception before it has looked at any) and takes the events out of
\* media_groups, so that they are handed on once and no later processing finds them.
C10_EventsHandedExactlyOnce ==
    [][\A c \in Chats : \A g \in Groups :
        Flushes(c, g) => fault' = "none" /\ media_groups'[g] = <<>>]_vars

-----------------------------------------------------------------------------
(* Claims about the Fetch workflow, under SpecFetch *)

Range(s) == {s[i] : i \in 1..Len(s)}
FileIds == {"f1", "f2", "f3"}

\* the episode numbers a keyboard offers, the files a handler run delivered
Offered(r) == {n \in 1..(MaxEpisodes + 1) : EpisodeButton(n) \in Range(r)}
Delivered(r) == Range(r) \cap FileIds

\* the numbers of the episodes of a list that carry a file
WithFile(episodes) ==
    {episodes[k].episode_number :
        k \in {j \in 1..Len(episodes) : episodes[j].file_id # NoFile}}

\* the numbers of the episodes with a file that the store holds now for season s of
\* the show id
StoredWithFile(shows, id, s) ==
    LET doc == shows[DocIdx(shows, id)] IN
    UNION {WithFile(doc.details.seasons[i].episodes) :
              i \in {j \in 1..Len(doc.details.seasons) :
                        doc.details.seasons[j].season_number = s}}

\* the transition in which a step of chat c puts up the episode list of a season
ListsEpisodes(c) ==
    /\ HandlesStep(c)
    /\ Len(step'[c]) = 1
    /\ step'[c][1].name = "process_episode_fetch"

\* the episode number the message of this transition asks for
AskedEpisode == PyInt(Strip(Remove(ev'.msg.text, tEpisode))).val

\* C11 as stated: the episode list put up for a season offers exactly the episodes of
\* that season that have a file in the store at that moment, and a file is delivered
\* only for an episode that has a file in the store.
C11_OfferedAreStoredNow ==
    [][\A c \in Chats :
        /\ ListsEpisodes(c)
           => Offered(reply') = StoredWithFile(tv_shows', step'[c][1].tv_show._id,
                                               step'[c][1].season.season_number)
        /\ (Handles(c, "process_episode_fetch") /\ Delivered(reply') # {})
           => AskedEpisode \in StoredWithFile(tv_shows', Cur(c).tv_show._id,
                                              Cur(c).season.season_number)]_vars

\* C11, amended: the episode list offers exactly the episodes with a file of the season
\* as it was read when the titles were listed; each of them has a file in the store at
\* that moment (an episode without a file is never offered, one attached since may be
\* missing); the file delivered is the file that reading holds for the episode asked for.
C11_OfferedAreOfTheTitleRead ==
    [][\A c \in Chats :
        /\ ListsEpisodes(c)
           => /\ Offered(reply') = WithFile(step'[c][1].season.episodes)
              /\ Offered(reply') \subseteq
                    StoredWithFile(tv_shows', step'[c][1].tv_show._id,
                                   step'[c][1].season.season_number)
        /\ (Handles(c, "process_episode_fetch") /\ Delivered(reply') # {})
           => /\ AskedEpisode \in WithFile(Cur(c).season.episodes)
              /\ AskedEpisode \in StoredWithFile(tv_shows', Cur(c).tv_show._id,
                                                 Cur(c).season.season_number)
              /\ \A f \in Delivered(reply') :
                    \E k \in 1..Len(Cur(c).season.episodes) :
                        /\ Cur(c).season.episodes[k].episode_number = AskedEpisode
                        /\ Cur(c).season.episodes[k].file_id = f]_vars

\* the file of episode 2, the only episode of the season read, was just delivered and
\* the list put up again
C11_Witness ==
    /\ ev.at = "process_episode_fetch"
    /\ ev.msg.text = tEpisode2
    /\ Delivered(reply) = {"f2"}
    /\ Offered(reply) = {2}

-----------------------------------------------------------------------------
(* Claims about steps in general: global commands, invalid input, faults *)

MainMenu == <<"Welcome to SparrowFlix! Please choose an option:">>

\* C12: a start token at any step discards the chat's context (no step stays
\* registered) and brings up the main menu; the step does not handle the message (no
\* exception, no answer of the step's own).
C12_StartReentersMainMenu ==
    [][\A c \in Chats :
        HandlesStep(c) /\ ev'.msg.text = tStart
        => step'[c] = <<>> /\ fault' = "none" /\ reply' = MainMenu]_vars

\* C13: an input that is not in the step's allowed set is answered with an error and
\* leaves the step that rejected it registered, with the arguments it had (the
\* language chosen before stays chosen).
C13_InvalidInputRepromptsSameStep ==
    [][\A c \in Chats :
        /\ (Handles(c, "process_language_selection_for_add")
                /\ IsInput(ev'.msg) /\ ~ValidLanguage(ev'.msg.text))
           => step'[c] = <<Cur(c)>> /\ reply' # <<>> /\ fault' = "none"
        /\ (Handles(c, "process_type_selection_for_add")
                /\ IsInput(ev'.msg) /\ ~ValidKind(ev'.msg.text))
           => step'[c] = <<Cur(c)>> /\ reply' # <<>> /\ fault' = "none"]_vars

\* what the selection step answers when it has accepted the text as a selection
SelectionAnswers ==
    {<<"Title added successfully.">>, <<"This title already exists in the database.">>,
     StoreError}

\* C14: the selection step accepts a text only if it is, whatever the case, the label
\* of one of the at most five candidates that got a button, and the title it then
\* saves is one of those labels.
C14_SelectionAmongPresented ==
    [][\A c \in Chats :
        (Handles(c, "process_tmdb_selection") /\ IsInput(ev'.msg)
            /\ reply' \in SelectionAnswers)
        => LET options == Options(Cur(c).results) IN
           /\ Len(options) <= TopN
           /\ \E k \in 1..Len(options) : Lower(options[k]) = Lower(ev'.msg.text)
           /\ reply' = <<"Title added successfully.">>
              => LET coll == IF Cur(c).item_type = kMovie THEN movies' ELSE tv_shows' IN
                 \E k \in 1..Len(options) : coll[Len(coll)].title = options[k]]_vars

\* C15: a text that is the label of no candidate is answered with an error and nothing
\* else; the selection step stays registered over the same candidates, and no other
\* step takes the text as its input (it is not searched for, it is not a "back").
C15_NoMatchKeepsSelectionStep ==
    [][\A c \in Chats :
        (Handles(c, "process_tmdb_selection") /\ IsInput(ev'.msg)
            /\ TmdbMatch(ev'.msg, Cur(c).results) = 0)
        => /\ step'[c] = <<Cur(c)>>
           /\ reply' = <<"Invalid selection. Try again.">>
           /\ fault' = "none"]_vars

\* the generic answers to a failed store operation inside a step
StoreFailures ==
    {"An error occurred while searching the database. Please try again.",
     "An error occurred while fetching titles. Please try again.",
     "An error occurred while saving the title. Try again later."}

\* C16: when a store operation inside a step fails (with anything but a duplicate
\* key), the exception is caught, the generic failure message is sent, and the step
\* stays registered with its arguments, so that the user can enter its input again.
C16_StoreFailureKeepsStep ==
    [][\A c \in Chats :
        (HandlesStep(c) /\ reply' # <<>> /\ reply'[Len(reply')] \in StoreFailures)
        => step'[c] = <<Cur(c)>> /\ fault' = "none"]_vars

\* C17: whatever message a step handler is given, no exception leaves it.
C17_NoFaultLeavesAStep == fault = "none"

-----------------------------------------------------------------------------
(* Claims about the attach of a file and its forward to the storage channel *)

\* the season numbers the store holds for the show id
StoredSeasonNumbers(shows, id) ==
    LET doc == shows[DocIdx(shows, id)] IN
    {doc.details.seasons[i].season_number : i \in 1..Len(doc.details.seasons)}

\* the answers that report an attach as done
AttachReports ==
    {<<"Uploaded and forwarded to channel successfully.">>,
     <<"Uploaded successfully, but forwarding to channel failed.">>}

SeasonNotFound == "Season not found. Please try again."

\* the season number the message of this transition names
AskedSeason == PyInt(Remove(Strip(ev'.msg.text), tSeason))

\* C18: a season number that the title does not contain is refused with the
\* season-not-found answer before any file is taken (no file step is registered for
\* it, the catalog is unchanged); an attach is reported as done only for a season the
\* stored title contains, and no step adds a season to a title.
C18_AbsentSeasonIsRefused ==
    [][\A c \in Chats :
        /\ (Handles(c, "process_season_selection_for_upload")
                /\ ev'.msg.text # NoText /\ ~IsBack(ev'.msg) /\ AskedSeason.ok
                /\ AskedSeason.val \notin StoredSeasonNumbers(tv_shows, Cur(c).tv_show._id))
           => /\ reply' # <<>> /\ reply'[1] = SeasonNotFound
              /\ tv_shows' = tv_shows
              /\ \A k \in 1..Len(step'[c]) : step'[c][k].name # "process_file_upload_batch"
              /\ fault' = "none"
        /\ (ev'.chat = c /\ ev'.at = "forward_to_storage_channel"
                /\ att[c].item_type = kTVShow /\ reply' \in AttachReports)
           => att[c].season_number \in StoredSeasonNumbers(tv_shows', att[c].id)
        /\ \A k \in 1..Len(tv_shows) :
              StoredSeasonNumbers(tv_shows', tv_shows[k]._id)
                  = StoredSeasonNumbers(tv_shows, tv_shows[k]._id)]_vars

\* "Season 9" was just refused for a show of seasons 1 and 2
C18_Witness ==
    /\ ev.at = "process_season_selection_for_upload"
    /\ ev.msg.text = tSeason9
    /\ reply # <<>> /\ reply[1] = SeasonNotFound
    /\ At(ev.chat, "process_season_selection_for_upload")
    /\ 9 \notin StoredSeasonNumbers(tv_shows, Cur(ev.chat).tv_show._id)

\* the file reference of every movie, and of every episode record of every show
MovieFiles(coll) == [k \in 1..Len(coll) |-> coll[k].file_id]
EpisodeFiles(shows) ==
    [k \in 1..Len(shows) |->
        [i \in 1..Len(shows[k].details.seasons) |->
            [e \in 1..Len(shows[k].details.seasons[i].episodes) |->
                <<shows[k].details.seasons[i].episodes[e].episode_number,
                  shows[k].details.seasons[i].episodes[e].file_id>>]]]

SoftWarning == <<"Uploaded successfully, but forwarding to channel failed.">>

\* C19: whether the forward to the storage channel, or the write of its link, fails or
\* not, the forward step leaves every stored file reference as it was (a movie keeps
\* the file just attached), no exception leaves it, and the answer is the success
\* report or, when nothing new reached the channel or no link was written, the soft
\* warning, never an error.
C19_ForwardFailureIsSoft ==
    [][\A c \in Chats :
        (ev'.chat = c /\ ev'.at = "forward_to_storage_channel")
        => /\ fault' = "none"
           /\ reply' \in AttachReports
           /\ MovieFiles(movies') = MovieFiles(movies)
           /\ EpisodeFiles(tv_shows') = EpisodeFiles(tv_shows)
           /\ att[c].item_type = kMovie
              => movies'[DocIdx(movies', att[c].id)].file_id = att[c].msg.file_id
           /\ (channel' = channel \/ (movies' = movies /\ tv_shows' = tv_shows))
              => reply' = SoftWarning]_vars

\* the movie's file went to the channel, the write of the link failed, and the movie
\* still carries the file
C19_Witness ==
    /\ ev.at = "forward_to_storage_channel"
    /\ reply = SoftWarning
    /\ Len(channel) = 1
    /\ movies[1].file_id = channel[1]
    /\ movies[1].channel_message_id = 0

\* C20: a file without group id sent to a chat with a selected upload target is handed
\* to the attach, and the target stays selected (the file step stays registered with
\* its title and season), so that the next such file is handed to the attach as well.
C20_EveryFileIsAttached ==
    [][\A c \in Chats :
        (Handles(c, "process_file_upload_batch")
            /\ ev'.msg.content_type \in {"document", "video"}
            /\ ev'.msg.media_group_id = NoGroup)
        => step'[c] = <<Cur(c)>>]_vars

-----------------------------------------------------------------------------
(* Claims about the order and the target of a group's attaches, under SpecBatch *)

\* the file events of a list whose caption names an episode
WellFormed(batch) ==
    LET Ok(m) == ~Malformed(m) IN SelectSeq(batch, Ok)

\* the log of the attaches ends with the files of the list s, in the order of s (the log
\* keeps the two last attaches)
LoggedInOrder(log, s) ==
    LET n == IF Len(s) < 2 THEN Len(s) ELSE 2 IN
    /\ Len(log) >= n
    /\ \A j \in 0..(n - 1) : log[Len(log) - j].file_id = s[Len(s) - j].file_id

\* C21: when a group is processed, every file event of the group is attached once, and
\* the attaches end in the order in which the events were received: the attaches logged
\* last are those of the group's files, in that order.
C21_FlushAttachesInOrder ==
    [][\A c \in Chats : \A g \in Groups :
        Flushes(c, g)
        => /\ calls' # calls
           /\ LoggedInOrder(calls', WellFormed(Batch(g)))]_vars

\* the season numbered s of the show id holds an episode numbered n with the file f
AttachedTo(shows, id, s, n, f) ==
    \E k \in 1..Len(shows) : \E i \in 1..Len(shows[k].details.seasons) :
        /\ shows[k]._id = id
        /\ shows[k].details.seasons[i].season_number = s
        /\ \E e \in 1..Len(shows[k].details.seasons[i].episodes) :
              /\ shows[k].details.seasons[i].episodes[e].episode_number = n
              /\ shows[k].details.seasons[i].episodes[e].file_id = f

\* C22: when the first file event of a group found a title and season selected (and was
\* attached there), the files of the group that are processed later are attached to
\* that same title and season, whatever the chat has selected by then.
C22_GroupKeepsFirstTarget ==
    [][\A c \in Chats : \A g \in Groups :
        (Flushes(c, g) /\ Len(calls) = 1 /\ calls[1].group = g /\ calls[1].first)
        => \A i \in 1..Len(WellFormed(Batch(g))) :
              LET m == WellFormed(Batch(g))[i] IN
              AttachedTo(tv_shows', calls[1].id, calls[1].season_number,
                         ReMatchDigits(Strip(m.caption)).val, m.file_id)]_vars

-----------------------------------------------------------------------------
(* Claims about the metadata source and the title lists, under SpecAdd *)

NoMatches == "No matches found. Try again or type 'Back'."

\* C23: when the request to the metadata source fails during a search of the Add
\* workflow, no exception leaves the handler, the chat is told that nothing matched,
\* nothing is stored, and the title-entry step is registered again with the language
\* and the kind the chat had chosen.
C23_LookupFailureIsEmptyResult ==
    [][\A c \in Chats :
        (step[c] # <<>> /\ ev'.chat = c /\ ev'.tmdb = "RequestException")
        => /\ fault' = "none"
           /\ reply' # <<>> /\ reply'[Len(reply')] = NoMatches
           /\ movies' = movies /\ tv_shows' = tv_shows
           /\ step'[c] = <<[name |-> "process_title_entry",
                            language |-> Cur(c).language,
                            item_type |-> Cur(c).item_type]>>]_vars

\* the search of a typed title has just failed
C23_Witness ==
    /\ ev.at = "process_title_entry"
    /\ ev.msg.text = tdune
    /\ ev.tmdb = "RequestException"
    /\ reply = <<NoMatches>>
    /\ At(ev.chat, "process_title_entry")

\* the kind a content type of Fetch stands for
KindOf(content_type) == IF content_type = Lower(tMovies) THEN kMovie ELSE kTVShow

\* the titles of the store with the language and the kind, whatever collection holds them
StoredOf(language, kind) ==
    LET Hit(d) == d.language = language /\ d.type = kind
    IN  Range(SelectSeq(movies \o tv_shows, Hit))

\* the titles chat c is offered after the transition: those on the keyboard of the
\* selection step (none when the chat is told that there are none)
OfferedTitles(c) ==
    IF step'[c] # <<>> /\ step'[c][1].name = "process_fetch_selection"
    THEN Range(step'[c][1].titles) ELSE {}

\* the content-type step of chat c takes one of the two content types and the store
\* answers the query
ListsTitles(c) ==
    /\ Handles(c, "process_fetch_content_type")
    /\ ev'.msg.text # NoText
    /\ Lower(Strip(ev'.msg.text)) \in {Lower(tMovies), Lower(tTVShows)}
    /\ reply' # <<"An error occurred while fetching titles. Please try again.">>

\* C24: the titles Fetch offers for a language and a content type are exactly the titles
\* of the store with that language and that kind.
C24_FetchOffersStoredOfLanguageAndKind ==
    [][\A c \in Chats :
        ListsTitles(c)
        => OfferedTitles(c)
            = StoredOf(Cur(c).language, KindOf(Lower(Strip(ev'.msg.text))))]_vars

\* a listing that offers one title while the store holds one of the other language too
C24_Witness ==
    /\ ev.at = "process_fetch_content_type"
    /\ At(ev.chat, "process_fetch_selection")
    /\ Len(Cur(ev.chat).titles) = 1
    /\ Len(movies) = 2
    /\ movies[1].language # movies[2].language
    /\ Cur(ev.chat).titles[1] \in {movies[1], movies[2]}

-----------------------------------------------------------------------------
(* Claims about the end of a workflow, under SpecWork *)

\* the handlers a chat stands at before it has a step: the entries of the workflows
Entries == {"start_handler", "add_new_title_handler", "upload_handler", "fetch_handler"}

\* the handler run of chat c that stores the title it was asked to add
TitleSaved(c) ==
    /\ Handles(c, "process_tmdb_selection")
    /\ reply' = <<"Title added successfully.">>

\* the file step of chat c takes a file and attaches it (the store operations and the
\* forward that follow belong to the same handler run)
FileAttached(c) ==
    /\ Handles(c, "process_file_upload_batch")
    /\ att'[c] # Idle

\* the later parts of a handler run that is under way
RunUnderWay == {"update_one", "forward_to_storage_channel"}

-----------------------------------------------------------------------------
(* Claims about back at the first step *)

\* the first steps of the three workflows: their language selections
FirstSteps ==
    {"process_language_selection_for_add", "process_language_selection_for_upload",
     "process_language_selection_for_fetch"}

\* C26: "back" at the language selection of a workflow leaves the workflow: the chat
\* has no step afterwards.
C26_BackAtFirstStepCancels ==
    [][\A c \in Chats :
        (HandlesStep(c) /\ Cur(c).name \in FirstSteps /\ IsBack(ev'.msg))
        => step'[c] = <<>>]_vars

-----------------------------------------------------------------------------
(* Claims about what an attach leaves alone, under SpecUpload *)

\* the season numbers of a document, in the order of its seasons
SeasonNumbers(doc) ==
    [i \in 1..Len(doc.details.seasons) |-> doc.details.seasons[i].season_number]

\* C27: no step of the program adds a season to a title or takes one from it: every
\* title keeps its place in its collection and the season numbers it had.
C27_SeasonsNeverChange ==
    [][/\ Len(tv_shows') >= Len(tv_shows)
       /\ Len(movies') >= Len(movies)
       /\ \A k \in 1..Len(tv_shows) :
            /\ tv_shows'[k]._id = tv_shows[k]._id
            /\ SeasonNumbers(tv_shows'[k]) = SeasonNumbers(tv_shows[k])
       /\ \A k \in 1..Len(movies) :
            /\ movies'[k]._id = movies[k]._id
            /\ SeasonNumbers(movies'[k]) = SeasonNumbers(movies[k])]_vars

\* attaches to season 1 and to season 2 of the show have ended, and the show still has
\* its two seasons
C27_Witness ==
    /\ Len(tv_shows) = 1
    /\ SeasonNumbers(tv_shows[1]) = <<1, 2>>
    /\ Len(calls) = 2
    /\ calls[1].season_number = 1
    /\ calls[2].season_number = 2
    /\ tv_shows[1].details.seasons[1].episodes # <<>>
    /\ \A c \in Chats : att[c] = Idle

\* a document of the movies with its file-attachment fields blanked
WithoutFile(doc) == [doc EXCEPT !.file_id = NoFile, !.channel_message_id = 0]

\* C28: a step of an attach to (title, season s, episode n) leaves every other show,
\* every other season of the show and every other episode of season s as they were, and
\* no step changes anything of a movie but its file and its link.
C28_AttachTouchesOnlyItsTarget ==
    [][/\ \A k \in 1..Len(movies) : WithoutFile(movies'[k]) = WithoutFile(movies[k])
       /\ \A c \in Chats :
            (ev'.chat = c /\ ev'.at \in RunUnderWay /\ att[c].item_type = kTVShow)
            => \A k \in 1..Len(tv_shows) :
                 IF tv_shows[k]._id # att[c].id THEN tv_shows'[k] = tv_shows[k]
                 ELSE \A i \in 1..Len(tv_shows[k].details.seasons) :
                        LET old == tv_shows[k].details.seasons[i]
                            new == tv_shows'[k].details.seasons[i]
                        IN  IF old.season_number # att[c].season_number THEN new = old
                            ELSE \A e \in 1..Len(old.episodes) :
                                   old.episodes[e].episode_number # att[c].episode_number
                                   => new.episodes[e] = old.episodes[e]]_vars

-----------------------------------------------------------------------------
(* Claims about the threads at media_groups, under SpecRace *)

\* the worker threads between their first and their last access to media_groups
Inside == {w \in Workers : workers[w].pc # "idle"}

\* C29: the accesses to media_groups are serialized: no two threads are between their
\* first and their last access to it at once.
C29_MapAccessIsSerialized == Cardinality(Inside) <= 1

-----------------------------------------------------------------------------
(* Claims about groups left in media_groups, under SpecSweep *)

\* the staleness threshold, in ticks of the clock
StaleAfter == 1

\* the group holds messages and the last of them is older than the threshold
Stale(g) ==
    /\ media_groups[g] # <<>>
    /\ now - media_groups[g][Len(media_groups[g])].date > StaleAfter

\* C30: a group that has become stale in media_groups is eventually removed from it.
C30_StaleGroupIsRemoved ==
    \A g \in Groups : Stale(g) ~> (media_groups[g] = <<>>)

-----------------------------------------------------------------------------
(* Claims about the stop command, under SpecStop *)

\* the answers of the two global-command checks that call os._exit(0)
StopAnswers == {<<"Bot is stopping. Goodbye!">>, <<"Bot stopping. Goodbye!">>}

\* C31: the handled stop command ends the whole instance: the step that answers it
\* leaves the process not running, and from then on no message of any chat is handled,
\* no worker thread goes on and the groups in media_groups are never flushed: every
\* in a process that is not running only the clock moves.
C31_StopIsTerminal ==
    [][/\ reply' \in StopAnswers /\ reply' # reply => ~running'
       /\ ~running =>
              UNCHANGED <<step, movies, tv_shows, channel, att, media_groups, reply,
                          fault, running, calls, workers>>]_vars

\* the bot was stopped by one chat while a worker thread was in the middle of the
\* album of another and a message of the album was in media_groups
C31_Witness ==
    /\ ~running
    /\ reply \in StopAnswers
    /\ media_groups["g1"] # <<>>
    /\ \E w \in Workers : workers[w].pc = "tested" /\ workers[w].chat = "c2"

-----------------------------------------------------------------------------
(* Claims about the chat's list of next-step handlers, under SpecThreads *)

\* C32: every chat has at most one registered next step.
C32_AtMostOneNextStep == \A c \in Chats : Len(step[c]) <= 1

-----------------------------------------------------------------------------
(* Claims about the archival link of a record *)

\* the records of the store that a file can be attached to: the movies and the
\* episodes of every season of every show
Records(coll, shows) ==
    {coll[k] : k \in 1..Len(coll)}
    \cup UNION {UNION {Range(shows[k].details.seasons[i].episodes) :
                          i \in 1..Len(shows[k].details.seasons)} : k \in 1..Len(shows)}

MovieLinks(coll) == [k \in 1..Len(coll) |-> coll[k].channel_message_id]
EpisodeLinks(shows) ==
    [k \in 1..Len(shows) |->
        [i \in 1..Len(shows[k].details.seasons) |->
            [e \in 1..Len(shows[k].details.seasons[i].episodes) |->
                shows[k].details.seasons[i].episodes[e].channel_message_id]]]

\* C33: a movie or episode record that carries an archival link carries a file
\* reference, and a link is written only by the forward step, after the storing of the
\* file, together with a new message of the storage channel.
C33_LinkFollowsFileAndForward ==
    /\ [](\A r \in Records(movies, tv_shows) :
            r.channel_message_id # 0 => r.file_id # NoFile)
    /\ [][(MovieLinks(movies') # MovieLinks(movies)
            \/ (Len(tv_shows') = Len(tv_shows)
                /\ EpisodeLinks(tv_shows') # EpisodeLinks(tv_shows)
                /\ EpisodeFiles(tv_shows') = EpisodeFiles(tv_shows)))
          => /\ ev'.at = "forward_to_storage_channel"
             /\ Len(channel') = Len(channel) + 1]_vars

\* an episode carries a file and the link to it, and the movie carries a file whose
\* forward failed
C33_Witness ==
    /\ \E r \in Records(<<>>, tv_shows) : r.file_id # NoFile /\ r.channel_message_id # 0
    /\ movies[1].file_id # NoFile /\ movies[1].channel_message_id = 0

\* C34: when no attach is under way, a record that carries a file reference and an
\* archival link is linked to the message of the storage channel that holds that file.
C34_LinkPointsToTheFile ==
    (\A c \in Chats : att[c] = Idle)
    => \A r \in Records(movies, tv_shows) :
          (r.file_id # NoFile /\ r.channel_message_id # 0)
          => /\ r.channel_message_id <= Len(channel)
             /\ channel[r.channel_message_id] = r.file_id

-----------------------------------------------------------------------------
(* Claims about what an attach reports *)

\* the episode records numbered n that the season s of the show id holds in shows
EpisodeRecordsIn(shows, id, s, n) ==
    LET doc == shows[DocIdx(shows, id)]
        IsN(e) == e.episode_number = n
        InS(x) == x.season_number = s
        seasons == SelectSeq(doc.details.seasons, InS)
    IN  IF seasons = <<>> THEN <<>> ELSE SelectSeq(seasons[1].episodes, IsN)

\* C35: when the attach of an episode reports the episode as uploaded (with or without
\* the warning about the forward), the selected season holds exactly one episode of
\* that number, and its file is the uploaded file.
C35_ReportedEpisodeIsStored ==
    [][\A c \in Chats :
        (/\ ev'.chat = c /\ ev'.at = "forward_to_storage_channel"
         /\ att[c].item_type = kTVShow
         /\ reply' \in AttachReports)
        => LET records == EpisodeRecordsIn(tv_shows', att[c].id, att[c].season_number,
                                           att[c].episode_number)
           IN  Len(records) = 1 /\ records[1].file_id = att[c].msg.file_id]_vars

-----------------------------------------------------------------------------
(* Claims about the language of the Add workflow *)

\* the steps of the Add workflow that carry the chosen language
CarryLanguage ==
    {"process_type_selection_for_add", "process_title_entry", "process_tmdb_selection"}

\* C36: a message given to the kind step of the Add workflow does not change the
\* language: a step that is registered with a language by its handling carries the
\* language the kind step was registered with.
C36_KindStepKeepsLanguage ==
    [][\A c \in Chats :
        (/\ Handles(c, "process_type_selection_for_add")
         /\ step'[c] # <<>>
         /\ step'[c][1].name \in CarryLanguage)
        => step'[c][1].language = Cur(c).language]_vars

-----------------------------------------------------------------------------
(* Claims about the detail lookup of the Add workflow *)

\* C37: when the detail lookup fails after a valid selection and the store takes the
\* insert, no exception leaves the handler, the title is inserted with an empty detail
\* blob (a show: without seasons), and the chat is told that the title was added.
C37_DetailFailureStillInserts ==
    [][\A c \in Chats :
        (/\ ev'.chat = c /\ ev'.at = "process_tmdb_selection"
         /\ ev'.tmdb = "details: RequestException"
         /\ ev'.store = "up")
        => LET coll == Collection(Cur(c).item_type)
               coll2 == IF Cur(c).item_type = kMovie THEN movies' ELSE tv_shows'
           IN  /\ fault' = "none"
               /\ reply' = <<"Title added successfully.">>
               /\ Len(movies') + Len(tv_shows') = Len(movies) + Len(tv_shows) + 1
               /\ Len(coll2) = Len(coll) + 1
               /\ SubSeq(coll2, 1, Len(coll)) = coll
               /\ coll2[Len(coll2)].details = NoDetails
               /\ coll2[Len(coll2)].details.seasons = <<>>
               /\ coll2[Len(coll2)].title \in
                     {OptionLabel(Cur(c).results[k]) :
                         k \in Selected(Cur(c).results, ev'.msg.text)}
               /\ step'[c] = <<>>]_vars

\* a show was just saved without its details
C37_Witness ==
    /\ ev.at = "process_tmdb_selection"
    /\ ev.tmdb = "details: RequestException"
    /\ reply = <<"Title added successfully.">>
    /\ tv_shows # <<>>
    /\ tv_shows[Len(tv_shows)].details = NoDetails

-----------------------------------------------------------------------------
(* Claims about the end of a pending group, under SpecSweep *)

\* C38: while the process runs, a group that holds file events is eventually flushed
\* and gone from media_groups: no group with events stays in the map forever.
C38_PendingGroupIsFlushedAndGone ==
    \A g \in Groups :
        (running /\ media_groups[g] # <<>>) ~> (~running \/ media_groups[g] = <<>>)

-----------------------------------------------------------------------------
(* Claims about the titles the Upload workflow offers *)

\* C39: every title offered for selection after the search step of the Upload workflow
\* has the language and the kind the chat chose in the two steps before.
C39_OfferedTitlesMatchChoice ==
    \A c \in Chats :
        At(c, "process_upload_selection")
        => \A k \in 1..Len(Cur(c).results) :
              /\ Cur(c).results[k].language = Cur(c).language
              /\ Cur(c).results[k].type = Cur(c).item_type

=============================================================================
